---------------------------- MODULE Spec2Model ----------------------------
(***************************************************************************)
(* ESP32 Wake-on-LAN agent: the connectivity manager (wifi_manager.py),    *)
(* the controller client (http_client.py), the wake dispatcher             *)
(* (wol_sender.py) and the agent loop (main.py) as one sequential state    *)
(* machine.  The program is single threaded: pc is the position of that    *)
(* one thread; the only concurrent party is the radio link, whose          *)
(* association status (hw) changes on its own.                             *)
(***************************************************************************)
EXTENDS Integers, Sequences, FiniteSets, TLC

(* ------------------------- program constants ------------------------- *)

POLL_INTERVAL == 5

WIFI_CONNECT_TIMEOUT == 30

WIFI_RETRY_COUNT == 100

LOOP_SLEEP == 1

LOOP_COOLDOWN == 5

CONNECT_POLL_SLEEP == 1

CONNECT_BACKOFF == 2

MAGIC_REPEAT == 16

MAC_HEX_LEN == 12

MAC_BYTE_LEN == 6

\* config.py: debug output is switched on
DEBUG == TRUE

(* ------------------------------ bounds ------------------------------- *)

\* polls issued in one run of the agent loop
MaxPolls == 2

\* length of the `messages` array of a poll response
MaxMsgs == 2

\* value of the `total` field of a poll response
MaxTotal == 1

(* ------------------------------ state -------------------------------- *)

VARIABLES
    pc,            \* position of the single thread of control
    caller,        \* who called connect()/auto_reconnect(): "init", "poll", "api_connect", "api_ar"
    is_running,    \* ESP32WOLSystem.is_running
    is_connected,  \* WiFiManager.is_connected (the manager's Connected flag)
    hw,            \* wlan.isconnected(): live association status of the radio
    retry_count,   \* local of connect()
    waited,        \* time.time() - start_time inside connect()'s wait loop
    connReqs,      \* wlan.connect() calls made by the current connect() call
    backoffs,      \* time.sleep(2) calls made by the current connect() call
    activated,     \* wlan.active(True) was called by the current connect() call
    connResult,    \* outcome of the last connect(): "none", "true", "false", "raised"
    connObserved,  \* the hw sample that decided the last connect() return
    arResult,      \* outcome of this iteration's auto_reconnect(): "none", "true", "false", "raised"
    sincePoll,     \* time.time() - last_poll_time, saturated at POLL_INTERVAL
    pollCount,     \* poll requests issued in this run
    instrCount,    \* polls of this run that returned an instruction
    dispatchCount, \* send_wol_packet calls of this run
    cycleDispatch, \* send_wol_packet calls of the current poll_server call
    pollKind,      \* result of this iteration's poll: "none", "skipped", "error", "empty", "instr"
    message,       \* target_mac of the instruction of this cycle (<<>> when none)
    dispatchMac,   \* mac_address argument of the last send_wol_packet call
    regCount,      \* register_device calls of this run
    regResult,     \* "none", "ok", "failed"
    sockOpen,      \* datagram sockets currently open
    sockOpens,     \* sockets opened by the current send_wol_packet call
    sockCloses,    \* sockets closed by the current send_wol_packet call
    wolResult,     \* outcome of the last send_wol_packet: "none", "true", "false"
    initResult,    \* "none", "ok", "connect_failed", "error", "interrupt"
    loopExit,      \* why the while loop was left: "none", "stop", "escaped", "interrupt"
    magic_packet,  \* local of send_wol_packet: the packet built for this call (<<>> when none)
    sentCount,     \* datagrams sent by the current send_wol_packet call
    macBytes,      \* the 6 bytes the caller wrote the mac_address string from (<<>> when none)
    attempts,      \* argument of send_multiple_wol
    attempt_i,     \* loop variable i of send_multiple_wol
    success_count, \* local of send_multiple_wol
    multiCalls,    \* send_wol_packet calls made by the current send_multiple_wol call
    multiDelays,   \* time.sleep(delay) calls made by the current send_multiple_wol call
    okCalls,       \* send_wol_packet calls of the current send_multiple_wol call that returned True
    multiResult,   \* outcome of the last send_multiple_wol: "none", "true", "false"
    fnIn,          \* the call in progress on a helper under test: its name and argument
    fnOut,         \* what that call returned, or that it raised
    shutdowns,     \* shutdown() calls of this run
    checkResult,   \* what the last check_connection() returned: "none", "true", "false"
    discIssued,    \* the last disconnect() called wlan.disconnect()
    discResult,    \* outcome of the last disconnect(): "none", "returned", "raised"
    first_iteration \* the while loop of run() is in its first iteration

vars == <<pc, caller, is_running, is_connected, hw, retry_count, waited, connReqs,
          backoffs, activated, connResult, connObserved, arResult, sincePoll,
          pollCount, instrCount, dispatchCount, cycleDispatch, pollKind, message,
          dispatchMac, regCount, regResult, sockOpen, sockOpens, sockCloses,
          wolResult, initResult, loopExit, magic_packet, sentCount, macBytes, attempts,
          attempt_i, success_count, multiCalls, multiDelays, okCalls, multiResult, fnIn, fnOut,
          shutdowns, checkResult, discIssued, discResult, first_iteration>>

wifiVars == <<is_connected, hw>>

connVars == <<retry_count, waited, connReqs, backoffs, activated, connResult, connObserved>>

pollVars == <<pollCount, instrCount, pollKind, message>>

wolVars == <<dispatchCount, cycleDispatch, dispatchMac, sockOpen, sockOpens, sockCloses, wolResult>>

runVars == <<is_running, regCount, regResult, initResult, loopExit>>

packetVars == <<magic_packet, sentCount, macBytes>>

multiVars == <<attempts, attempt_i, success_count, multiCalls, multiDelays, okCalls, multiResult>>

fnVars == <<fnIn, fnOut>>

discVars == <<discIssued, discResult>>

auxVars == <<packetVars, multiVars, fnVars, shutdowns, checkResult, discVars, first_iteration>>

Min(a, b) == IF a < b THEN a ELSE b


(* ------------- wol_sender.py: MAC parsing and magic packet ------------ *)

\* Python None, as returned by parse_mac_address / create_magic_packet
NoneVal == <<>>

HexChars == {"0", "1", "2", "3", "4", "5", "6", "7", "8", "9", "A", "B", "C", "D", "E", "F"}

\* str.upper() on one character
Upper(c) ==
    CASE c = "a" -> "A" [] c = "b" -> "B" [] c = "c" -> "C" [] c = "d" -> "D"
      [] c = "e" -> "E" [] c = "f" -> "F" [] c = "g" -> "G" [] c = "z" -> "Z"
      [] OTHER -> c

\* value of one hexadecimal digit, as bytes.fromhex reads it
HexVal(c) ==
    CASE c = "0" -> 0 [] c = "1" -> 1 [] c = "2" -> 2 [] c = "3" -> 3
      [] c = "4" -> 4 [] c = "5" -> 5 [] c = "6" -> 6 [] c = "7" -> 7
      [] c = "8" -> 8 [] c = "9" -> 9 [] c = "A" -> 10 [] c = "B" -> 11
      [] c = "C" -> 12 [] c = "D" -> 13 [] c = "E" -> 14 [] c = "F" -> 15

IsSeparator(c) == c \in {":", "-", " "}

NotSeparator(c) == ~IsSeparator(c)

\* a clean-up that removes ':' only
mac_clean_ColonOnly(mac_str) ==
    LET stripped == SelectSeq(mac_str, LAMBDA c : c # ":")
    IN  [i \in 1..Len(stripped) |-> Upper(stripped[i])]

\* mac_str.replace(':', '').replace('-', '').replace(' ', '').upper()
mac_clean(mac_str) ==
    LET stripped == SelectSeq(mac_str, NotSeparator)
    IN  [i \in 1..Len(stripped) |-> Upper(stripped[i])]

\* parse_mac_address that only rejects strings that are too short
parse_mac_address_LenAtLeast(mac_str) ==
    LET clean == mac_clean(mac_str)
    IN  IF Len(clean) < MAC_HEX_LEN THEN NoneVal
        ELSE IF \E i \in 1..Len(clean) : clean[i] \notin HexChars THEN NoneVal
        ELSE [i \in 1..MAC_BYTE_LEN |-> 16 * HexVal(clean[2 * i - 1]) + HexVal(clean[2 * i])]

\* WOLSender.parse_mac_address: the 6 bytes, or None
parse_mac_address(mac_str) ==
    LET clean == mac_clean(mac_str)
    IN  IF Len(clean) # MAC_HEX_LEN THEN NoneVal
        ELSE IF \E i \in 1..Len(clean) : clean[i] \notin HexChars THEN NoneVal
        ELSE [i \in 1..MAC_BYTE_LEN |-> 16 * HexVal(clean[2 * i - 1]) + HexVal(clean[2 * i])]

RECURSIVE Repeat(_, _)
\* magic_packet += mac_bytes, n times
Repeat(bytes, n) == IF n = 0 THEN <<>> ELSE bytes \o Repeat(bytes, n - 1)

\* WOLSender.create_magic_packet on a string argument: the packet, or None
create_magic_packet(mac_address) ==
    LET mac_bytes == parse_mac_address(mac_address)
    IN  IF mac_bytes = NoneVal THEN NoneVal
        ELSE IF Len(mac_bytes) # MAC_BYTE_LEN THEN NoneVal
        ELSE [i \in 1..MAC_BYTE_LEN |-> 255] \o Repeat(mac_bytes, MAGIC_REPEAT)

(* ------------------ hardware addresses written as text ---------------- *)

MacColon == <<"A", "A", ":", "B", "B", ":", "C", "C", ":", "D", "D", ":", "E", "E", ":", "F", "F">>

MacDashLower == <<"0", "1", "-", "2", "3", "-", "4", "5", "-", "6", "7", "-", "8", "9", "-", "a", "b">>

MacShort == <<"A", "A", ":", "B", "B">>

MacBadChar == <<"G", "G", "B", "B", "C", "C", "D", "D", "E", "E", "F", "F">>

LowerDigits == <<"0", "1", "2", "3", "4", "5", "6", "7", "8", "9", "a", "b", "c", "d", "e", "f">>

UpperDigits == <<"0", "1", "2", "3", "4", "5", "6", "7", "8", "9", "A", "B", "C", "D", "E", "F">>

\* '%02x' % b (style "lower"), '%02X' % b (style "upper"), or the first digit in
\* upper and the second in lower case (style "mixed")
FormatByte(b, style) ==
    <<(IF style = "lower" THEN LowerDigits ELSE UpperDigits)[(b \div 16) + 1],
      (IF style = "upper" THEN UpperDigits ELSE LowerDigits)[(b % 16) + 1]>>

\* sep.join(FormatByte(b) for b in bytes), sep being "" or one character
FormatMac(bytes, sep, style) ==
    LET chunk == 2 + Len(sep)
        n     == Len(bytes) * 2 + (Len(bytes) - 1) * Len(sep)
    IN  [k \in 1..n |->
            LET q == (k - 1) \div chunk
                r == (k - 1) % chunk
            IN  IF r < 2 THEN FormatByte(bytes[q + 1], style)[r + 1] ELSE sep[1]]

\* byte values the addresses are made of: 0x1A, 0x90, 0xAB
ByteVals == {26, 144, 171}

Separators == {<<":">>, <<"-">>, <<>>}

Styles == {"lower", "upper", "mixed"}

\* every address over ByteVals, in every separator convention and letter case
ValidMacInputs ==
    {[text |-> FormatMac(b, sep, style), bytes |-> b] :
        b \in [1..MAC_BYTE_LEN -> ByteVals], sep \in Separators, style \in Styles}

BaseBytes == <<26, 144, 171, 26, 144, 171>>

BaseTexts == {FormatMac(BaseBytes, sep, style) : sep \in Separators, style \in Styles}

\* strings that are no hardware address: a digit missing, a digit too many, a
\* letter that is no hex digit, the short and bad strings of the poll, nothing
InvalidMacTexts ==
    {SubSeq(t, 1, Len(t) - 1) : t \in BaseTexts}
    \cup {Append(t, "0") : t \in BaseTexts}
    \cup {[t EXCEPT ![1] = c] : t \in BaseTexts, c \in {"G", "g", "z"}}
    \cup {MacShort, MacBadChar, <<>>}

MacInputs == ValidMacInputs \cup {[text |-> t, bytes |-> <<>>] : t \in InvalidMacTexts}

(* --------------- http_client.py: the poll response shapes ------------- *)

\* target_mac strings the controller may send
PollMacs == {<<>>, MacColon, MacDashLower, MacShort, MacBadChar}

\* one element of `messages`: an object whose keys id, target_mac and created_at
\* may each be missing, or a JSON value that is no object (is_obj FALSE)
Message(obj, hid, hmac, mac, hcreated) ==
    [is_obj |-> obj, has_id |-> hid, id |-> IF hid THEN "m1" ELSE "",
     has_mac |-> hmac, target_mac |-> mac,
     has_created |-> hcreated, created_at |-> IF hcreated THEN "t1" ELSE ""]

Messages ==
    {Message(TRUE, TRUE, TRUE, mac, TRUE) : mac \in PollMacs}
    \cup {Message(TRUE, TRUE, FALSE, <<>>, TRUE), Message(TRUE, FALSE, TRUE, MacColon, TRUE),
          Message(TRUE, TRUE, TRUE, MacColon, FALSE), Message(TRUE, FALSE, FALSE, <<>>, FALSE),
          Message(FALSE, FALSE, FALSE, <<>>, FALSE)}

RECURSIVE SeqsUpTo(_, _)
SeqsUpTo(S, n) ==
    IF n = 0 THEN {<<>>}
    ELSE LET shorter == SeqsUpTo(S, n - 1)
         IN  shorter \cup {Append(q, x) : q \in {r \in shorter : Len(r) = n - 1}, x \in S}

\* what the transport can hand back for one GET: an exception, a non-200 status,
\* a 200 whose body is not JSON, a 200 JSON value that is no object, a 200 object.
\* In an object the key `messages` holds a list (msgs_kind "list"), is missing
\* ("absent") or holds a value without a length such as null or a number
\* ("unsized"); the key `total` holds an integer ("int"), is missing ("absent")
\* or holds a value that does not compare with 0 such as null or a string ("bad")
Responses ==
    [exc : {TRUE}, status : {0}, json : {FALSE}, isdict : {FALSE},
     msgs_kind : {"absent"}, messages : {<<>>}, total_kind : {"absent"}, total : {0}]
    \cup [exc : {FALSE}, status : {404, 500}, json : {FALSE}, isdict : {FALSE},
          msgs_kind : {"absent"}, messages : {<<>>}, total_kind : {"absent"}, total : {0}]
    \cup [exc : {FALSE}, status : {200}, json : BOOLEAN, isdict : {FALSE},
          msgs_kind : {"absent"}, messages : {<<>>}, total_kind : {"absent"}, total : {0}]
    \cup [exc : {FALSE}, status : {200}, json : {TRUE}, isdict : {TRUE},
          msgs_kind : {"list"}, messages : SeqsUpTo(Messages, MaxMsgs),
          total_kind : {"int"}, total : 0..MaxTotal]
    \cup [exc : {FALSE}, status : {200}, json : {TRUE}, isdict : {TRUE},
          msgs_kind : {"list"}, messages : SeqsUpTo(Messages, MaxMsgs),
          total_kind : {"absent", "bad"}, total : {0}]
    \cup [exc : {FALSE}, status : {200}, json : {TRUE}, isdict : {TRUE},
          msgs_kind : {"absent", "unsized"}, messages : {<<>>},
          total_kind : {"int"}, total : 0..MaxTotal]
    \cup [exc : {FALSE}, status : {200}, json : {TRUE}, isdict : {TRUE},
          msgs_kind : {"absent", "unsized"}, messages : {<<>>},
          total_kind : {"absent", "bad"}, total : {0}]

\* HTTPClient._make_request: (response_data, error); response_data is the parsed
\* object ("dict"), any other parsed JSON value or the raw text ("other"), or
\* None; error is "" for None, else the kind of message, with the status code
make_request(resp) ==
    IF resp.exc THEN [data |-> "none", error |-> "Request error", status |-> 0]
    ELSE IF resp.status = 200
         THEN IF resp.json /\ resp.isdict THEN [data |-> "dict", error |-> "", status |-> 0]
              ELSE [data |-> "other", error |-> "", status |-> 0]
         ELSE [data |-> "none", error |-> "HTTP", status |-> resp.status]

\* first_message.get('target_mac', '')
get_target_mac(m) == IF m.has_mac THEN m.target_mac ELSE <<>>

\* first_message.get('id', '')
get_id(m) == IF m.has_id THEN m.id ELSE ""

\* first_message.get('created_at', '')
get_created_at(m) == IF m.has_created THEN m.created_at ELSE ""

\* the (message, error) pairs poll_for_messages returns, and an exception leaving it
PollMessage(m) ==
    [raised |-> FALSE, has_message |-> TRUE, id |-> get_id(m), target_mac |-> get_target_mac(m),
     created_at |-> get_created_at(m), error |-> "", status |-> 0]

PollNothing(err, code) ==
    [raised |-> FALSE, has_message |-> FALSE, id |-> "", target_mac |-> <<>>,
     created_at |-> "", error |-> err, status |-> code]

PollRaises ==
    [raised |-> TRUE, has_message |-> FALSE, id |-> "", target_mac |-> <<>>,
     created_at |-> "", error |-> "", status |-> 0]

\* the message taken is the last of the list
first_message_TakesLast(messages) == messages[Len(messages)]

\* line 100: first_message = messages[0]
first_message(messages) == messages[1]

\* poll_for_messages, the body of its try (lines 82-117): a TypeError or
\* AttributeError on an ill-typed field leaves it as an exception
poll_body(resp) ==
    LET r        == make_request(resp)
        messages == IF resp.msgs_kind = "absent" THEN <<>> ELSE resp.messages
        total    == IF resp.total_kind = "absent" THEN 0 ELSE resp.total
    IN  IF r.error # "" THEN PollNothing(r.error, r.status)
        ELSE IF r.data = "dict"
             THEN IF resp.total_kind = "bad" THEN PollRaises
                  ELSE IF total > 0
                       THEN IF resp.msgs_kind = "unsized" THEN PollRaises
                            ELSE IF Len(messages) > 0
                                 THEN IF first_message(messages).is_obj
                                      THEN PollMessage(first_message(messages))
                                      ELSE PollRaises
                                 ELSE PollNothing("", 0)
                       ELSE PollNothing("", 0)
             ELSE PollNothing("Invalid response format", 0)

\* HTTPClient.poll_for_messages: lines 119-123 turn an exception of the body
\* into (None, "Poll error: ...")
poll_for_messages(resp) ==
    LET r == poll_body(resp)
    IN  IF r.raised THEN PollNothing("Poll error", 0) ELSE r

\* every (message, error) a poll can come back with
PollOutcomes == {poll_for_messages(resp) : resp \in Responses}

\* poll_server(), lines 100-106: `if error` is tested before `if message`
poll_kind(r) == IF r.error # "" THEN "error" ELSE IF r.has_message THEN "instr" ELSE "empty"

(* ------------------------------ time --------------------------------- *)

\* d seconds pass: time.time() - last_poll_time grows (kept up to POLL_INTERVAL)
Advance(d) == sincePoll' = Min(sincePoll + d, POLL_INTERVAL)

(* --------------------------- initial state --------------------------- *)

\* no helper call is in progress / nothing has been returned yet
NoCall == [op |-> "none"]

NoReturn == [status |-> "none"]

Boot ==
    /\ caller = "none"
    /\ is_running = FALSE
    /\ is_connected = FALSE
    /\ retry_count = 0
    /\ waited = 0
    /\ connReqs = 0
    /\ backoffs = 0
    /\ activated = FALSE
    /\ connResult = "none"
    /\ connObserved = FALSE
    /\ arResult = "none"
    /\ sincePoll = 0
    /\ pollCount = 0
    /\ instrCount = 0
    /\ dispatchCount = 0
    /\ cycleDispatch = 0
    /\ pollKind = "none"
    /\ message = <<>>
    /\ dispatchMac = <<>>
    /\ regCount = 0
    /\ regResult = "none"
    /\ sockOpen = 0
    /\ sockOpens = 0
    /\ sockCloses = 0
    /\ wolResult = "none"
    /\ initResult = "none"
    /\ loopExit = "none"
    /\ magic_packet = <<>>
    /\ sentCount = 0
    /\ macBytes = <<>>
    /\ attempts = 0
    /\ attempt_i = 0
    /\ success_count = 0
    /\ multiCalls = 0
    /\ multiDelays = 0
    /\ okCalls = 0
    /\ multiResult = "none"
    /\ fnIn = NoCall
    /\ fnOut = NoReturn
    /\ shutdowns = 0
    /\ checkResult = "none"
    /\ discIssued = FALSE
    /\ discResult = "none"
    /\ first_iteration = FALSE

\* power-on: main() is about to run, the radio is not associated
Init == pc = "main" /\ hw = FALSE /\ Boot

(* ------------------- the radio link (environment) -------------------- *)

\* the station associates with the access point
LinkUp == ~hw /\ hw' = TRUE /\ UNCHANGED <<pc, caller, is_connected, connVars, arResult, sincePoll, pollVars, wolVars, runVars>>
    /\ UNCHANGED auxVars

\* the association is lost
LinkDown == hw /\ hw' = FALSE /\ UNCHANGED <<pc, caller, is_connected, connVars, arResult, sincePoll, pollVars, wolVars, runVars>>
    /\ UNCHANGED auxVars

(* ------------------ wifi_manager.py: WiFiManager ---------------------- *)

\* connect() is entered: its locals and the per-call history start afresh
EnterConnect(who) ==
    /\ pc' = "conn_entry"
    /\ caller' = who
    /\ retry_count' = 0
    /\ waited' = 0
    /\ connReqs' = 0
    /\ backoffs' = 0
    /\ activated' = FALSE
    /\ connResult' = "none"
    /\ connObserved' = FALSE

\* connect() is over and its result consumed: its locals are gone
LeaveConnect ==
    /\ retry_count' = 0
    /\ waited' = 0
    /\ connReqs' = 0
    /\ backoffs' = 0
    /\ activated' = FALSE
    /\ connResult' = "none"
    /\ connObserved' = FALSE

\* connect() returns `result` ("true" / "false") or raises ("raised")
ConnectReturns(result) == pc' = "conn_ret" /\ connResult' = result

\* connect() without the `if self.is_connected` shortcut
ConnectEntry_NoShortcut ==
    /\ pc = "conn_entry"
    /\ activated' = TRUE
    /\ connObserved' = hw
    /\ IF hw
       THEN is_connected' = TRUE /\ ConnectReturns("true")
       ELSE pc' = "conn_loop" /\ UNCHANGED <<is_connected, connResult>>
    /\ UNCHANGED <<caller, hw, retry_count, waited, connReqs, backoffs, arResult,
                   sincePoll, pollVars, wolVars, runVars>>
    /\ UNCHANGED auxVars

\* connect(), lines 16-30: the already-connected shortcut, wlan.active(True),
\* and the already-associated shortcut
ConnectEntry ==
    /\ pc = "conn_entry"
    /\ IF is_connected
       THEN /\ ConnectReturns("true")
            /\ UNCHANGED <<is_connected, activated, connObserved>>
       ELSE /\ activated' = TRUE
            /\ connObserved' = hw
            /\ IF hw
               THEN is_connected' = TRUE /\ ConnectReturns("true")
               ELSE pc' = "conn_loop" /\ UNCHANGED <<is_connected, connResult>>
    /\ UNCHANGED <<caller, hw, retry_count, waited, connReqs, backoffs, arResult,
                   sincePoll, pollVars, wolVars, runVars>>
    /\ UNCHANGED auxVars

\* wlan.active(True) raises: it is outside connect()'s try, so connect() raises
ConnectActivateRaises ==
    /\ pc = "conn_entry"
    /\ ~is_connected
    /\ activated' = TRUE
    /\ ConnectReturns("raised")
    /\ UNCHANGED <<caller, wifiVars, retry_count, waited, connReqs, backoffs, connObserved,
                   arResult, sincePoll, pollVars, wolVars, runVars>>
    /\ UNCHANGED auxVars

\* a failed attempt that is not counted
AttemptFailed_NotCounted ==
    /\ pc' = "conn_loop"
    /\ UNCHANGED <<retry_count, backoffs, sincePoll>>

\* the backoff taken after every failed attempt, the last one included
AttemptFailed_AlwaysBacksOff ==
    /\ retry_count' = retry_count + 1
    /\ backoffs' = backoffs + 1
    /\ Advance(CONNECT_BACKOFF)
    /\ pc' = "conn_loop"

\* lines 68-70: retry_count += 1, then the backoff unless this was the last attempt
AttemptFailed ==
    /\ retry_count' = retry_count + 1
    /\ IF retry_count + 1 < WIFI_RETRY_COUNT
       THEN backoffs' = backoffs + 1 /\ Advance(CONNECT_BACKOFF)
       ELSE UNCHANGED <<backoffs, sincePoll>>
    /\ pc' = "conn_loop"

\* line 34 and 39-42: the loop test, then wlan.connect() and start_time
ConnectLoop ==
    /\ pc = "conn_loop"
    /\ IF retry_count < WIFI_RETRY_COUNT
       THEN /\ connReqs' = connReqs + 1
            /\ waited' = 0
            /\ pc' = "conn_wait"
            /\ UNCHANGED connResult
       ELSE /\ ConnectReturns("false")
            /\ UNCHANGED <<connReqs, waited>>
    /\ UNCHANGED <<caller, wifiVars, retry_count, backoffs, activated, connObserved,
                   arResult, sincePoll, pollVars, wolVars, runVars>>
    /\ UNCHANGED auxVars

\* wlan.connect() raises: caught at line 64, the attempt counts as failed
ConnectRequestRaises ==
    /\ pc = "conn_loop"
    /\ retry_count < WIFI_RETRY_COUNT
    /\ connReqs' = connReqs + 1
    /\ AttemptFailed
    /\ UNCHANGED <<caller, wifiVars, waited, activated, connResult, connObserved,
                   arResult, pollVars, wolVars, runVars>>
    /\ UNCHANGED auxVars

\* lines 43-48: one turn of the wait loop: leave it when associated or when the
\* per-attempt timeout has elapsed, else sleep one second; the elapsed time is
\* only computed in the loop test, nothing reads it after the loop
ConnectWait ==
    /\ pc = "conn_wait"
    /\ IF hw \/ waited > WIFI_CONNECT_TIMEOUT
       THEN pc' = "conn_check" /\ waited' = 0 /\ UNCHANGED sincePoll
       ELSE /\ waited' = waited + CONNECT_POLL_SLEEP
            /\ Advance(CONNECT_POLL_SLEEP)
            /\ pc' = "conn_wait"
    /\ UNCHANGED <<caller, wifiVars, retry_count, connReqs, backoffs, activated, connResult,
                   connObserved, arResult, pollVars, wolVars, runVars>>
    /\ UNCHANGED auxVars

\* lines 50-70: the check after the wait decides the attempt
ConnectCheck ==
    /\ pc = "conn_check"
    /\ connObserved' = hw
    /\ IF hw
       THEN /\ is_connected' = TRUE
            /\ ConnectReturns("true")
            /\ UNCHANGED <<retry_count, backoffs, sincePoll>>
       ELSE /\ AttemptFailed
            /\ UNCHANGED <<is_connected, connResult>>
    /\ UNCHANGED <<caller, hw, waited, connReqs, activated, arResult, pollVars, wolVars, runVars>>
    /\ UNCHANGED auxVars

\* lines 24-30 with DEBUG on: the radio is found associated, the flag is set, and
\* the report of wlan.config('essid') / wlan.ifconfig() raises: these lines are
\* outside connect()'s try, so connect() raises with the flag already True
ConnectEntryReportRaises ==
    /\ pc = "conn_entry"
    /\ ~is_connected /\ hw /\ DEBUG
    /\ activated' = TRUE
    /\ connObserved' = hw
    /\ is_connected' = TRUE
    /\ ConnectReturns("raised")
    /\ UNCHANGED <<caller, hw, retry_count, waited, connReqs, backoffs, arResult,
                   sincePoll, pollVars, wolVars, runVars>>
    /\ UNCHANGED auxVars

\* lines 50-59 and 64-70 with DEBUG on: the attempt found the radio associated
\* and set the flag, then the report of wlan.ifconfig() raises inside the try:
\* the except at line 64 counts the attempt as failed and the loop goes on
ConnectReportRaises ==
    /\ pc = "conn_check"
    /\ hw /\ DEBUG
    /\ connObserved' = hw
    /\ is_connected' = TRUE
    /\ AttemptFailed
    /\ UNCHANGED <<caller, hw, waited, connReqs, activated, connResult, arResult, pollVars,
                   wolVars, runVars>>
    /\ UNCHANGED auxVars

\* a check_connection() that leaves the flag alone
check_connection_flag_NeverUpdates(connected) == is_connected

\* check_connection(), line 95: return connected
check_connection_result(connected) == IF connected THEN "true" ELSE "false"

\* check_connection(): sample the radio, update the flag when it differs
check_connection_flag(connected) == IF connected # is_connected THEN connected ELSE is_connected

\* check_connection(), lines 89-92: the "restored" branch prints
\* wlan.ifconfig()[0] after the flag was updated; that lookup can raise
check_connection_can_raise(connected) == DEBUG /\ connected /\ ~is_connected

\* auto_reconnect(), lines 145-149: check_connection(), then connect() when down
AutoReconnect ==
    /\ pc = "ar_check"
    /\ is_connected' = check_connection_flag(hw)
    /\ \/ /\ checkResult' = check_connection_result(hw)
          /\ IF checkResult' = "true"
             THEN /\ arResult' = "true"
                  /\ pc' = "ar_ret"
                  /\ UNCHANGED <<caller, connVars>>
             ELSE /\ EnterConnect(caller)
                  /\ UNCHANGED arResult
       \/ /\ check_connection_can_raise(hw)
          /\ checkResult' = "raised"
          /\ arResult' = "raised"
          /\ pc' = "ar_ret"
          /\ UNCHANGED <<caller, connVars>>
    /\ UNCHANGED <<hw, sincePoll, pollVars, wolVars, runVars>>
    /\ UNCHANGED <<packetVars, multiVars, fnVars, shutdowns, first_iteration, discVars>>

\* auto_reconnect() line 148: return self.connect()
AutoReconnectReturn ==
    /\ pc = "conn_ret"
    /\ caller \in {"poll", "api_ar"}
    /\ arResult' = connResult
    /\ pc' = "ar_ret"
    /\ LeaveConnect
    /\ UNCHANGED <<caller, wifiVars, sincePoll, pollVars, wolVars, runVars>>
    /\ UNCHANGED auxVars

\* disconnect(): wlan.disconnect() only when associated, then the flag is
\* cleared (line 82); when wlan.disconnect() raises, line 82 is not reached
disconnect ==
    \/ /\ discIssued' = hw
       /\ hw' = (IF hw THEN FALSE ELSE hw)
       /\ is_connected' = FALSE
       /\ discResult' = "returned"
    \/ /\ hw
       /\ discIssued' = TRUE
       /\ discResult' = "raised"
       /\ UNCHANGED <<hw, is_connected>>

(* ---------------------- main.py: ESP32WOLSystem ----------------------- *)

\* main(), line 180: the constructor builds the three components
Construct ==
    /\ pc = "main"
    /\ is_running' = TRUE
    /\ pc' = "run_init"
    /\ UNCHANGED <<caller, wifiVars, connVars, arResult, sincePoll, pollVars, wolVars,
                   regCount, regResult, initResult, loopExit>>
    /\ UNCHANGED auxVars

\* the constructor raises (network.WLAN / wlan.config('mac')): main()'s except
ConstructRaises ==
    /\ pc = "main"
    /\ pc' = "main_except"
    /\ UNCHANGED <<caller, wifiVars, connVars, arResult, sincePoll, pollVars, wolVars, runVars>>
    /\ UNCHANGED auxVars

\* initialize_system(), line 29: self.wifi_manager.connect()
InitializeSystem ==
    /\ pc = "run_init"
    /\ EnterConnect("init")
    /\ UNCHANGED <<wifiVars, arResult, sincePoll, pollVars, wolVars, runVars>>
    /\ UNCHANGED auxVars

\* initialize_system() that returns from run() without its finally
InitAfterConnect_SkipsFinally ==
    /\ pc = "conn_ret"
    /\ caller = "init"
    /\ IF connResult = "true"
       THEN pc' = "init_register" /\ UNCHANGED initResult
       ELSE /\ initResult' = (IF connResult = "false" THEN "connect_failed" ELSE "error")
            /\ pc' = "run_ret"
    /\ LeaveConnect
    /\ UNCHANGED <<caller, wifiVars, arResult, sincePoll, pollVars, wolVars,
                   is_running, regCount, regResult, loopExit>>
    /\ UNCHANGED auxVars

\* initialize_system() that goes on to register after a failed connect
InitAfterConnect_NoAbort ==
    /\ pc = "conn_ret"
    /\ caller = "init"
    /\ pc' = "init_register"
    /\ initResult' = (IF connResult = "true" THEN initResult
                      ELSE IF connResult = "false" THEN "connect_failed" ELSE "error")
    /\ LeaveConnect
    /\ UNCHANGED <<caller, wifiVars, arResult, sincePoll, pollVars, wolVars,
                   is_running, regCount, regResult, loopExit>>
    /\ UNCHANGED auxVars

\* initialize_system(), lines 29-32 and 53-56, and run(), lines 123-126: a failed
\* (or raising) bootstrap connect makes run() return through its finally
InitAfterConnect ==
    /\ pc = "conn_ret"
    /\ caller = "init"
    /\ IF connResult = "true"
       THEN pc' = "init_register" /\ UNCHANGED initResult
       ELSE /\ initResult' = (IF connResult = "false" THEN "connect_failed" ELSE "error")
            /\ pc' = "run_finally"
    /\ LeaveConnect
    /\ UNCHANGED <<caller, wifiVars, arResult, sincePoll, pollVars, wolVars,
                   is_running, regCount, regResult, loopExit>>
    /\ UNCHANGED auxVars

\* initialize_system(), lines 38-41 and 53-56: get_ip() or get_network_info()
\* raises on the associated interface (wlan.ifconfig(), wlan.config('essid'));
\* the except returns False before register_device is reached
InitDeviceInfoRaises ==
    /\ pc = "init_register"
    /\ hw
    /\ initResult' = "error"
    /\ pc' = "run_finally"
    /\ UNCHANGED <<caller, wifiVars, connVars, arResult, sincePoll, pollVars, wolVars,
                   is_running, regCount, regResult, loopExit>>
    /\ UNCHANGED auxVars

\* KeyboardInterrupt during initialize_system(): it is no Exception, so neither
\* line 53 nor run()'s line 155 catches it; run()'s finally runs
InitInterrupt ==
    /\ \/ pc \in {"run_init", "init_register"}
       \/ pc \in {"conn_entry", "conn_loop", "conn_wait", "conn_check", "conn_ret"} /\ caller = "init"
    /\ initResult' = "interrupt"
    /\ pc' = "run_finally"
    /\ LeaveConnect
    /\ UNCHANGED <<caller, wifiVars, arResult, sincePoll, pollVars, wolVars,
                   is_running, regCount, regResult, loopExit>>
    /\ UNCHANGED auxVars

\* initialize_system() that returns False when the registration fails
RegisterDevice_FailureAborts ==
    /\ pc = "init_register"
    /\ regCount' = regCount + 1
    /\ \E ok \in BOOLEAN :
          /\ regResult' = (IF ok THEN "ok" ELSE "failed")
          /\ initResult' = (IF ok THEN "ok" ELSE "error")
          /\ pc' = (IF ok THEN "loop_head" ELSE "run_finally")
    /\ \E t \in 0..POLL_INTERVAL : sincePoll' = t
    /\ UNCHANGED <<caller, wifiVars, connVars, arResult, pollVars, wolVars, is_running, loopExit>>
    /\ first_iteration' = TRUE
    /\ UNCHANGED <<packetVars, multiVars, fnVars, shutdowns, checkResult, discVars>>

\* initialize_system(), lines 38-51: device_info (get_ip and get_network_info
\* return), register_device (its outcome is only logged), return True; run()
\* line 129 sets last_poll_time = 0, so the first time.time() - last_poll_time
\* is the clock reading itself
RegisterDevice ==
    /\ pc = "init_register"
    /\ \E ok \in BOOLEAN : regResult' = (IF ok THEN "ok" ELSE "failed")
    /\ regCount' = regCount + 1
    /\ initResult' = "ok"
    /\ \E t \in 0..POLL_INTERVAL : sincePoll' = t
    /\ pc' = "loop_head"
    /\ UNCHANGED <<caller, wifiVars, connVars, arResult, pollVars, wolVars, is_running, loopExit>>
    /\ first_iteration' = TRUE
    /\ UNCHANGED <<packetVars, multiVars, fnVars, shutdowns, checkResult, discVars>>

\* run(), line 130: while self.is_running
LoopHead ==
    /\ pc = "loop_head"
    /\ pc' = (IF is_running THEN "loop_time" ELSE "run_finally")
    /\ UNCHANGED <<caller, wifiVars, connVars, arResult, sincePoll, pollVars, wolVars, runVars>>
    /\ UNCHANGED auxVars

\* run(), lines 132-137: when the interval has elapsed poll_server() is entered
\* (line 92 calls auto_reconnect) and last_poll_time becomes current_time
LoopTime ==
    /\ pc = "loop_time"
    /\ IF sincePoll >= POLL_INTERVAL
       THEN /\ pollCount < MaxPolls
            /\ pc' = "ar_check"
            /\ caller' = "poll"
            /\ arResult' = "none"
            /\ sincePoll' = 0
            /\ pollKind' = "none"
            /\ message' = <<>>
            /\ cycleDispatch' = 0
            /\ dispatchMac' = <<>>
            /\ wolResult' = "none"
            /\ sockOpens' = 0
            /\ sockCloses' = 0
            /\ magic_packet' = <<>>
            /\ sentCount' = 0
            /\ UNCHANGED <<pollCount, instrCount, dispatchCount, sockOpen>>
       ELSE /\ pc' = "loop_sleep"
            /\ UNCHANGED <<caller, arResult, sincePoll, pollVars, wolVars, magic_packet, sentCount>>
    /\ UNCHANGED <<wifiVars, connVars, runVars>>
    /\ UNCHANGED <<macBytes, multiVars, fnVars, shutdowns, first_iteration, checkResult, discVars>>

\* poll_server() that polls whatever auto_reconnect() returned
PollServerBranch_IgnoresReconnect ==
    /\ pc = "ar_ret"
    /\ caller = "poll"
    /\ pc' = "poll_request"
    /\ UNCHANGED <<caller, wifiVars, connVars, arResult, sincePoll, pollVars, wolVars, runVars>>
    /\ checkResult' = "none"
    /\ UNCHANGED <<packetVars, multiVars, fnVars, shutdowns, first_iteration, discVars>>

\* poll_server(), lines 92-95 and 111-114: no poll unless auto_reconnect() is true
PollServerBranch ==
    /\ pc = "ar_ret"
    /\ caller = "poll"
    /\ IF arResult = "true"
       THEN pc' = "poll_request" /\ UNCHANGED pollKind
       ELSE pc' = "loop_assign" /\ pollKind' = "skipped"
    /\ UNCHANGED <<caller, wifiVars, connVars, arResult, sincePoll, pollCount, instrCount,
                   message, wolVars, runVars>>
    /\ checkResult' = "none"
    /\ UNCHANGED <<packetVars, multiVars, fnVars, shutdowns, first_iteration, discVars>>

\* poll_server(), lines 98-109: the poll request and the branch on its result
PollRequest ==
    /\ pc = "poll_request"
    /\ pollCount' = pollCount + 1
    /\ \E d \in 0..POLL_INTERVAL : Advance(d)
    /\ \E r \in PollOutcomes :
          /\ pollKind' = poll_kind(r)
          /\ IF poll_kind(r) = "instr"
             THEN /\ instrCount' = instrCount + 1
                  /\ message' = r.target_mac
                  /\ pc' = "process"
             ELSE /\ pc' = "loop_assign"
                  /\ UNCHANGED <<instrCount, message>>
    /\ UNCHANGED <<caller, wifiVars, connVars, arResult, wolVars, runVars>>
    /\ UNCHANGED auxVars

\* process_wol_message() without the `if not target_mac` test
ProcessWolMessage_NoEmptyTest ==
    /\ pc = "process"
    /\ dispatchCount' = dispatchCount + 1
    /\ cycleDispatch' = cycleDispatch + 1
    /\ dispatchMac' = message
    /\ sockOpens' = 0
    /\ sockCloses' = 0
    /\ pc' = "wol_build"
    /\ UNCHANGED <<sockOpen, wolResult>>
    /\ UNCHANGED <<caller, wifiVars, connVars, arResult, sincePoll, pollVars, runVars>>
    /\ UNCHANGED auxVars

\* process_wol_message(), lines 61-72: an empty target_mac is dropped, any other
\* is handed to send_wol_packet
ProcessWolMessage ==
    /\ pc = "process"
    /\ IF message = <<>>
       THEN /\ pc' = "loop_assign"
            /\ UNCHANGED wolVars
       ELSE /\ dispatchCount' = dispatchCount + 1
            /\ cycleDispatch' = cycleDispatch + 1
            /\ dispatchMac' = message
            /\ sockOpens' = 0
            /\ sockCloses' = 0
            /\ pc' = "wol_build"
            /\ UNCHANGED <<sockOpen, wolResult>>
    /\ UNCHANGED <<caller, wifiVars, connVars, arResult, sincePoll, pollVars, runVars>>
    /\ UNCHANGED auxVars

(* ------------------ wol_sender.py: send_wol_packet -------------------- *)

\* where send_wol_packet returns to: send_multiple_wol (line 155), a direct
\* caller, or process_wol_message (main.py line 72)
WolReturnPc ==
    IF caller = "multi" THEN "multi_ret"
    ELSE IF caller = "wol_api" THEN "wol_done"
    ELSE "loop_assign"

\* lines 90-94: no packet, no socket
WolBuild ==
    /\ pc = "wol_build"
    /\ magic_packet' = create_magic_packet(dispatchMac)
    /\ IF magic_packet' = NoneVal
       THEN pc' = WolReturnPc /\ wolResult' = "false"
       ELSE pc' = "wol_socket" /\ UNCHANGED wolResult
    /\ UNCHANGED <<caller, wifiVars, connVars, arResult, sincePoll, pollVars, dispatchCount,
                   cycleDispatch, dispatchMac, sockOpen, sockOpens, sockCloses, runVars>>
    /\ UNCHANGED <<sentCount, macBytes, multiVars, fnVars, shutdowns, first_iteration, checkResult, discVars>>

\* line 97: socket.socket(...) succeeds
WolSocket ==
    /\ pc = "wol_socket"
    /\ sockOpen' = sockOpen + 1
    /\ sockOpens' = sockOpens + 1
    /\ pc' = "wol_send"
    /\ UNCHANGED <<caller, wifiVars, connVars, arResult, sincePoll, pollVars, dispatchCount,
                   cycleDispatch, dispatchMac, sockCloses, wolResult, runVars>>
    /\ UNCHANGED auxVars

\* line 97 raises: nothing was opened, the outer except returns False
WolSocketRaises ==
    /\ pc = "wol_socket"
    /\ wolResult' = "false"
    /\ pc' = WolReturnPc
    /\ UNCHANGED <<caller, wifiVars, connVars, arResult, sincePoll, pollVars, dispatchCount,
                   cycleDispatch, dispatchMac, sockOpen, sockOpens, sockCloses, runVars>>
    /\ UNCHANGED auxVars

\* send_wol_packet() with sock.close() after the send instead of in a finally:
\* a failed send returns through the outer except with the socket still open
WolSend_CloseNotInFinally ==
    /\ pc = "wol_send"
    /\ \E sent \in BOOLEAN :
          /\ wolResult' = (IF sent THEN "true" ELSE "false")
          /\ sentCount' = (IF sent THEN sentCount + 1 ELSE sentCount)
          /\ okCalls' = (IF sent /\ caller = "multi" THEN okCalls + 1 ELSE okCalls)
          /\ pc' = (IF sent THEN "wol_close" ELSE WolReturnPc)
    /\ UNCHANGED <<caller, wifiVars, connVars, arResult, sincePoll, pollVars, dispatchCount,
                   cycleDispatch, dispatchMac, sockOpen, sockOpens, sockCloses, runVars>>
    /\ UNCHANGED <<magic_packet, macBytes, attempts, attempt_i, success_count, multiCalls,
                   multiDelays, multiResult, fnVars, shutdowns, first_iteration, checkResult, discVars>>

\* lines 101-115: setsockopt, settimeout, sendto: all succeed and the datagram
\* is sent, or one of them raises
WolSend ==
    /\ pc = "wol_send"
    /\ \E sent \in BOOLEAN :
          /\ wolResult' = (IF sent THEN "true" ELSE "false")
          /\ sentCount' = (IF sent THEN sentCount + 1 ELSE sentCount)
          /\ okCalls' = (IF sent /\ caller = "multi" THEN okCalls + 1 ELSE okCalls)
    /\ pc' = "wol_close"
    /\ UNCHANGED <<caller, wifiVars, connVars, arResult, sincePoll, pollVars, dispatchCount,
                   cycleDispatch, dispatchMac, sockOpen, sockOpens, sockCloses, runVars>>
    /\ UNCHANGED <<magic_packet, macBytes, attempts, attempt_i, success_count, multiCalls,
                   multiDelays, multiResult, fnVars, shutdowns, first_iteration, checkResult, discVars>>

\* lines 117-118: finally: sock.close()
WolClose ==
    /\ pc = "wol_close"
    /\ sockOpen' = sockOpen - 1
    /\ sockCloses' = sockCloses + 1
    /\ pc' = WolReturnPc
    /\ UNCHANGED <<caller, wifiVars, connVars, arResult, sincePoll, pollVars, dispatchCount,
                   cycleDispatch, dispatchMac, sockOpens, wolResult, runVars>>
    /\ UNCHANGED auxVars

(* ------------------------ main.py: run(), cont. ----------------------- *)

\* run(), lines 137-140: poll_server() has returned; gc.collect()
LoopAssign ==
    /\ pc = "loop_assign"
    /\ pc' = "loop_sleep"
    /\ UNCHANGED <<caller, wifiVars, connVars, arResult, sincePoll, pollVars, wolVars, runVars>>
    /\ UNCHANGED auxVars

\* run(), line 143: time.sleep(1)
LoopSleep ==
    /\ pc = "loop_sleep"
    /\ Advance(LOOP_SLEEP)
    /\ pc' = "loop_head"
    /\ UNCHANGED <<caller, wifiVars, connVars, arResult, pollVars, wolVars, runVars>>
    /\ first_iteration' = FALSE
    /\ UNCHANGED <<packetVars, multiVars, fnVars, shutdowns, checkResult, discVars>>

\* a loop without the per-iteration try: the exception leaves the while loop
IterationHandler_NoTry == "run_finally"

\* where an Exception raised in the try body of the loop is handled (line 150)
IterationHandler == "loop_except"

\* time.time(), gc.collect() or time.sleep(1) raises an Exception
IterationRaises ==
    /\ pc \in {"loop_time", "loop_sleep"}
    /\ pc' = IterationHandler
    /\ UNCHANGED <<caller, wifiVars, connVars, arResult, sincePoll, pollVars, wolVars, runVars>>
    /\ UNCHANGED auxVars

\* run(), lines 150-153: log, time.sleep(5), back to the loop test
Cooldown ==
    /\ pc = "loop_except"
    /\ Advance(LOOP_COOLDOWN)
    /\ pc' = "loop_head"
    /\ UNCHANGED <<caller, wifiVars, connVars, arResult, pollVars, wolVars, runVars>>
    /\ first_iteration' = FALSE
    /\ UNCHANGED <<packetVars, multiVars, fnVars, shutdowns, checkResult, discVars>>

\* an Exception raised inside the handler itself (lines 151-153) leaves the loop
\* and is caught by run()'s outer except (line 155)
CooldownRaises ==
    /\ pc = "loop_except"
    /\ loopExit' = "escaped"
    /\ pc' = "run_finally"
    /\ UNCHANGED <<caller, wifiVars, connVars, arResult, sincePoll, pollVars, wolVars,
                   is_running, regCount, regResult, initResult>>
    /\ UNCHANGED auxVars

\* KeyboardInterrupt inside the handler: not an Exception, so only the finally runs
CooldownInterrupt ==
    /\ pc = "loop_except"
    /\ loopExit' = "interrupt"
    /\ pc' = "run_finally"
    /\ UNCHANGED <<caller, wifiVars, connVars, arResult, sincePoll, pollVars, wolVars,
                   is_running, regCount, regResult, initResult>>
    /\ UNCHANGED auxVars

\* positions inside the try body of the loop (lines 131-143), poll_server and
\* everything it calls included
TryBody ==
    {"loop_time", "ar_check", "conn_entry", "conn_loop", "conn_wait", "conn_check", "conn_ret",
     "ar_ret", "poll_request", "process", "wol_build", "wol_socket", "wol_send", "wol_close",
     "loop_assign", "loop_sleep"}

InTryBody == pc \in TryBody /\ (pc \in {"conn_entry", "conn_loop", "conn_wait", "conn_check", "conn_ret"} => caller = "poll")

\* run(), lines 144-148: KeyboardInterrupt in the try body: is_running = False,
\* break; an open socket is closed on the way out by send_wol_packet's finally
StopSignal ==
    /\ InTryBody
    /\ is_running' = FALSE
    /\ loopExit' = "stop"
    /\ sockOpen' = 0
    /\ sockCloses' = sockCloses + sockOpen
    /\ pc' = "run_finally"
    /\ LeaveConnect
    /\ UNCHANGED <<caller, wifiVars, arResult, sincePoll, pollVars, dispatchCount,
                   cycleDispatch, dispatchMac, sockOpens, wolResult, regCount, regResult, initResult>>
    /\ UNCHANGED auxVars

\* run(), line 159, and shutdown(): disconnect the interface; an exception of
\* disconnect() is caught and logged (lines 167-172)
Shutdown ==
    /\ pc = "run_finally"
    /\ shutdowns' = shutdowns + 1
    /\ disconnect
    /\ pc' = "run_ret"
    /\ UNCHANGED <<caller, connVars, arResult, sincePoll, pollVars, wolVars, runVars>>
    /\ UNCHANGED <<packetVars, multiVars, fnVars, checkResult, first_iteration>>

\* where main() continues when run() has returned without raising an Exception:
\* line 181 is the last statement of the try, main() is over
AfterRun == "main_done"

\* main(), lines 179-181: run() has returned
MainReturn ==
    /\ pc = "run_ret"
    /\ pc' = AfterRun
    /\ UNCHANGED <<caller, wifiVars, connVars, arResult, sincePoll, pollVars, wolVars, runVars>>
    /\ UNCHANGED auxVars

\* main(), lines 183-186: the cool-down before the reset
MainCooldown ==
    /\ pc = "main_except"
    /\ pc' = "main_reset"
    /\ UNCHANGED <<caller, wifiVars, connVars, arResult, sincePoll, pollVars, wolVars, runVars>>
    /\ UNCHANGED auxVars

\* main(), line 187: machine.reset(): the device boots again
Reset ==
    /\ pc = "main_reset"
    /\ pc' = "main"
    /\ hw' = FALSE
    /\ caller' = "none" /\ is_running' = FALSE /\ is_connected' = FALSE
    /\ retry_count' = 0 /\ waited' = 0 /\ connReqs' = 0 /\ backoffs' = 0
    /\ activated' = FALSE /\ connResult' = "none" /\ connObserved' = FALSE
    /\ arResult' = "none" /\ sincePoll' = 0
    /\ pollCount' = 0 /\ instrCount' = 0 /\ dispatchCount' = 0 /\ cycleDispatch' = 0
    /\ pollKind' = "none" /\ message' = <<>> /\ dispatchMac' = <<>>
    /\ regCount' = 0 /\ regResult' = "none"
    /\ sockOpen' = 0 /\ sockOpens' = 0 /\ sockCloses' = 0 /\ wolResult' = "none"
    /\ initResult' = "none" /\ loopExit' = "none"
    /\ first_iteration' = FALSE
    /\ UNCHANGED <<packetVars, multiVars, fnVars, shutdowns, checkResult, discVars>>

(* ------------------------- the whole program -------------------------- *)

Next ==
    \/ LinkUp \/ LinkDown
    \/ Construct \/ ConstructRaises \/ InitializeSystem \/ InitAfterConnect \/ RegisterDevice
    \/ InitDeviceInfoRaises \/ InitInterrupt
    \/ ConnectEntry \/ ConnectActivateRaises \/ ConnectEntryReportRaises
    \/ ConnectLoop \/ ConnectRequestRaises \/ ConnectWait \/ ConnectCheck \/ ConnectReportRaises
    \/ LoopHead \/ LoopTime \/ AutoReconnect \/ AutoReconnectReturn \/ PollServerBranch
    \/ PollRequest \/ ProcessWolMessage
    \/ WolBuild \/ WolSocket \/ WolSocketRaises \/ WolSend \/ WolClose
    \/ LoopAssign \/ LoopSleep \/ IterationRaises \/ Cooldown \/ CooldownRaises
    \/ CooldownInterrupt \/ StopSignal
    \/ Shutdown \/ MainReturn \/ MainCooldown \/ Reset

Spec == Init /\ [][Next]_vars

(* ------------- the whole program, scheduled and unbounded ------------- *)

\* the while loop of run() has no bound on its iterations: the counters of this
\* run (they are bookkeeping, the program does not read them) start again when
\* they have reached MaxPolls and another poll is due
NewEpoch ==
    /\ pc = "loop_time"
    /\ sincePoll >= POLL_INTERVAL
    /\ pollCount = MaxPolls
    /\ pollCount' = 0
    /\ instrCount' = 0
    /\ dispatchCount' = 0
    /\ UNCHANGED <<pc, caller, wifiVars, connVars, arResult, sincePoll, pollKind, message,
                   cycleDispatch, dispatchMac, sockOpen, sockOpens, sockCloses, wolResult, runVars>>
    /\ UNCHANGED auxVars

NextLive == Next \/ NewEpoch

\* a step of the program's single thread, as opposed to a change of the radio link
Thread == NextLive /\ (pc' # pc \/ hw' = hw)

\* the interpreter keeps executing the thread: it has no other thread to run
\* and every call it makes returns or raises (sleeps are finite, the HTTP
\* request and the datagram socket carry timeouts)
LiveSpec == Init /\ [][NextLive]_vars /\ WF_vars(Thread)

(* -------- the connectivity manager under an arbitrary caller ---------- *)

\* a freshly constructed WiFiManager, no call in progress
InitApi == pc = "api_idle" /\ hw = FALSE /\ Boot

ApiCallConnect ==
    /\ pc = "api_idle"
    /\ EnterConnect("api_connect")
    /\ UNCHANGED <<wifiVars, arResult, sincePoll, pollVars, wolVars, runVars>>
    /\ UNCHANGED auxVars

ApiConnectReturn ==
    /\ pc = "conn_ret"
    /\ caller = "api_connect"
    /\ pc' = "api_idle"
    /\ LeaveConnect
    /\ UNCHANGED <<caller, wifiVars, arResult, sincePoll, pollVars, wolVars, runVars>>
    /\ UNCHANGED auxVars

ApiCallAutoReconnect ==
    /\ pc = "api_idle"
    /\ pc' = "ar_check"
    /\ caller' = "api_ar"
    /\ arResult' = "none"
    /\ UNCHANGED <<wifiVars, connVars, sincePoll, pollVars, wolVars, runVars>>
    /\ UNCHANGED auxVars

ApiAutoReconnectReturn ==
    /\ pc = "ar_ret"
    /\ caller = "api_ar"
    /\ pc' = "api_idle"
    /\ UNCHANGED <<caller, wifiVars, connVars, arResult, sincePoll, pollVars, wolVars, runVars>>
    /\ checkResult' = "none"
    /\ UNCHANGED <<packetVars, multiVars, fnVars, shutdowns, first_iteration, discVars>>

\* check_connection() called on its own
ApiCheckConnection ==
    /\ pc = "api_idle"
    /\ is_connected' = check_connection_flag(hw)
    /\ \/ checkResult' = check_connection_result(hw)
       \/ check_connection_can_raise(hw) /\ checkResult' = "raised"
    /\ pc' = "check_ret"
    /\ UNCHANGED <<caller, hw, connVars, arResult, sincePoll, pollVars, wolVars, runVars>>
    /\ UNCHANGED <<packetVars, multiVars, fnVars, shutdowns, first_iteration, discVars>>

\* the caller has seen what check_connection() returned
ApiCheckReturn ==
    /\ pc = "check_ret"
    /\ pc' = "api_idle"
    /\ checkResult' = "none"
    /\ UNCHANGED <<caller, wifiVars, connVars, arResult, sincePoll, pollVars, wolVars, runVars>>
    /\ UNCHANGED <<packetVars, multiVars, fnVars, shutdowns, first_iteration, discVars>>

\* disconnect() called on its own
ApiDisconnect ==
    /\ pc = "api_idle"
    /\ disconnect
    /\ pc' = "disc_ret"
    /\ UNCHANGED <<caller, connVars, arResult, sincePoll, pollVars, wolVars, runVars>>
    /\ UNCHANGED <<packetVars, multiVars, fnVars, shutdowns, first_iteration, checkResult>>

\* the caller has seen disconnect() return or raise
ApiDisconnectReturn ==
    /\ pc = "disc_ret"
    /\ pc' = "api_idle"
    /\ discIssued' = FALSE
    /\ discResult' = "none"
    /\ UNCHANGED <<caller, wifiVars, connVars, arResult, sincePoll, pollVars, wolVars, runVars>>
    /\ UNCHANGED <<packetVars, multiVars, fnVars, shutdowns, first_iteration, checkResult>>

NextApi ==
    \/ LinkUp \/ LinkDown
    \/ ApiCallConnect \/ ApiConnectReturn \/ ApiCallAutoReconnect \/ ApiAutoReconnectReturn
    \/ ApiCheckConnection \/ ApiCheckReturn \/ ApiDisconnect \/ ApiDisconnectReturn
    \/ ConnectEntry \/ ConnectActivateRaises \/ ConnectEntryReportRaises
    \/ ConnectLoop \/ ConnectRequestRaises \/ ConnectWait \/ ConnectCheck \/ ConnectReportRaises
    \/ AutoReconnect \/ AutoReconnectReturn

ApiSpec == InitApi /\ [][NextApi]_vars

(* ----------- the Wake-on-LAN sender under an arbitrary caller --------- *)

\* attempts argument of send_multiple_wol
MaxAttempts == 3

\* send_multiple_wol's default for attempts
DEFAULT_ATTEMPTS == 3

\* a freshly constructed WOLSender, no call in progress
InitWol == pc = "wol_idle" /\ hw = FALSE /\ Boot

\* a send_wol_packet call starts: nothing built, opened or sent yet
EnterSendWol ==
    /\ pc' = "wol_build"
    /\ wolResult' = "none"
    /\ sockOpens' = 0
    /\ sockCloses' = 0
    /\ magic_packet' = <<>>
    /\ sentCount' = 0

\* send_wol_packet(mac_address) called on its own
ApiSendWol ==
    /\ pc = "wol_idle"
    /\ \E input \in MacInputs : dispatchMac' = input.text /\ macBytes' = input.bytes
    /\ caller' = "wol_api"
    /\ EnterSendWol
    /\ UNCHANGED <<wifiVars, connVars, arResult, sincePoll, pollVars, dispatchCount,
                   cycleDispatch, sockOpen, runVars>>
    /\ UNCHANGED <<multiVars, fnVars, shutdowns, first_iteration, checkResult, discVars>>

\* addresses handed to send_multiple_wol
MultiInputs == {m \in MacInputs : m.bytes \in {<<>>, BaseBytes}}

\* send_multiple_wol(mac_address, attempts, delay) is called: line 149
ApiSendMultiple ==
    /\ pc = "wol_idle"
    /\ \E input \in MultiInputs : dispatchMac' = input.text /\ macBytes' = input.bytes
    /\ \E n \in 0..MaxAttempts : attempts' = n
    /\ caller' = "multi"
    /\ attempt_i' = 0
    /\ success_count' = 0
    /\ multiCalls' = 0
    /\ multiDelays' = 0
    /\ okCalls' = 0
    /\ multiResult' = "none"
    /\ wolResult' = "none"
    /\ sockOpens' = 0
    /\ sockCloses' = 0
    /\ magic_packet' = <<>>
    /\ sentCount' = 0
    /\ pc' = "multi_loop"
    /\ UNCHANGED <<wifiVars, connVars, arResult, sincePoll, pollVars, dispatchCount,
                   cycleDispatch, sockOpen, runVars>>
    /\ UNCHANGED <<fnVars, shutdowns, first_iteration, checkResult, discVars>>

\* send_multiple_wol that stops at the first attempt that succeeds
MultiLoop_StopsOnSuccess ==
    /\ pc = "multi_loop"
    /\ IF attempt_i < attempts /\ success_count = 0
       THEN /\ multiCalls' = multiCalls + 1
            /\ EnterSendWol
            /\ UNCHANGED multiResult
       ELSE /\ multiResult' = (IF success_count > 0 THEN "true" ELSE "false")
            /\ pc' = "wol_done"
            /\ UNCHANGED <<multiCalls, wolResult, sockOpens, sockCloses, magic_packet, sentCount>>
    /\ UNCHANGED <<caller, wifiVars, connVars, arResult, sincePoll, pollVars, dispatchCount,
                   cycleDispatch, dispatchMac, sockOpen, runVars>>
    /\ UNCHANGED <<macBytes, attempts, attempt_i, success_count, multiDelays, okCalls, fnVars,
                   shutdowns, first_iteration, checkResult, discVars>>

\* lines 151-155 and 165: for i in range(attempts): one more send_wol_packet call;
\* after the loop, return success_count > 0
MultiLoop ==
    /\ pc = "multi_loop"
    /\ IF attempt_i < attempts
       THEN /\ multiCalls' = multiCalls + 1
            /\ EnterSendWol
            /\ UNCHANGED multiResult
       ELSE /\ multiResult' = (IF success_count > 0 THEN "true" ELSE "false")
            /\ pc' = "wol_done"
            /\ UNCHANGED <<multiCalls, wolResult, sockOpens, sockCloses, magic_packet, sentCount>>
    /\ UNCHANGED <<caller, wifiVars, connVars, arResult, sincePoll, pollVars, dispatchCount,
                   cycleDispatch, dispatchMac, sockOpen, runVars>>
    /\ UNCHANGED <<macBytes, attempts, attempt_i, success_count, multiDelays, okCalls, fnVars,
                   shutdowns, first_iteration, checkResult, discVars>>

\* lines 155-160: count the success, sleep unless this was the last attempt
MultiAfterSend ==
    /\ pc = "multi_ret"
    /\ success_count' = (IF wolResult = "true" THEN success_count + 1 ELSE success_count)
    /\ multiDelays' = (IF attempt_i < attempts - 1 THEN multiDelays + 1 ELSE multiDelays)
    /\ attempt_i' = attempt_i + 1
    /\ pc' = "multi_loop"
    /\ UNCHANGED <<caller, wifiVars, connVars, arResult, sincePoll, pollVars, wolVars, runVars>>
    /\ UNCHANGED <<packetVars, attempts, multiCalls, okCalls, multiResult, fnVars, shutdowns, first_iteration,
                   checkResult, discVars>>

\* the caller has looked at the result: the sender is idle again
ApiWolDone ==
    /\ pc = "wol_done"
    /\ pc' = "wol_idle"
    /\ caller' = "none"
    /\ dispatchMac' = <<>>
    /\ macBytes' = <<>>
    /\ magic_packet' = <<>>
    /\ sentCount' = 0
    /\ wolResult' = "none"
    /\ sockOpens' = 0
    /\ sockCloses' = 0
    /\ attempts' = 0
    /\ attempt_i' = 0
    /\ success_count' = 0
    /\ multiCalls' = 0
    /\ multiDelays' = 0
    /\ okCalls' = 0
    /\ multiResult' = "none"
    /\ UNCHANGED <<wifiVars, connVars, arResult, sincePoll, pollVars, dispatchCount,
                   cycleDispatch, sockOpen, runVars>>
    /\ UNCHANGED <<fnVars, shutdowns, first_iteration, checkResult, discVars>>

NextWol ==
    \/ ApiSendWol \/ ApiSendMultiple \/ MultiLoop \/ MultiAfterSend \/ ApiWolDone
    \/ WolBuild \/ WolSocket \/ WolSocketRaises \/ WolSend \/ WolClose

WolSpec == InitWol /\ [][NextWol]_vars

(* ------------------- the poll under every response -------------------- *)

\* a freshly constructed HTTPClient, no call in progress
InitPoll == pc = "fn_idle" /\ hw = FALSE /\ Boot

\* what the caller of a helper sees: the value returned, or an exception
Returned(v) == [status |-> "returned", value |-> v]

Raised == [status |-> "raised"]

\* poll_for_messages() called on its own, the transport handing back resp
ApiPoll ==
    /\ pc = "fn_idle"
    /\ \E resp \in Responses :
          /\ fnIn' = [op |-> "poll_for_messages", arg |-> resp]
          /\ fnOut' = (LET r == poll_for_messages(resp) IN IF r.raised THEN Raised ELSE Returned(r))
    /\ pc' = "fn_done"
    /\ UNCHANGED <<caller, wifiVars, connVars, arResult, sincePoll, pollVars, wolVars, runVars>>
    /\ UNCHANGED <<packetVars, multiVars, shutdowns, first_iteration, checkResult, discVars>>

\* the caller has looked at the result
ApiFnDone ==
    /\ pc = "fn_done"
    /\ pc' = "fn_idle"
    /\ fnIn' = NoCall
    /\ fnOut' = NoReturn
    /\ UNCHANGED <<caller, wifiVars, connVars, arResult, sincePoll, pollVars, wolVars, runVars>>
    /\ UNCHANGED <<packetVars, multiVars, shutdowns, first_iteration, checkResult, discVars>>

NextPoll == ApiPoll \/ ApiFnDone

PollSpec == InitPoll /\ [][NextPoll]_vars

(* -------------- network snapshots and the read-only queries ----------- *)

\* an IPv4 address string is held as the list of its dot-separated parts, so
\* that addr.split('.') is the list itself; '' is the empty list
IpChoices ==
    {<<"192", "168", "1", "1">>, <<"192", "168", "1", "10">>, <<"192", "168", "2", "10">>,
     <<"10", "0", "0", "1">>, <<"255", "255", "255", "254">>}

Mask24 == <<"255", "255", "255", "0">>

Masks == {Mask24, <<"255", "255", "0", "0">>}

\* what wlan.ifconfig() reports on an associated interface
IfConfigs == [ip : IpChoices, subnet : Masks, gateway : IpChoices]

\* the network_config argument of get_broadcast_addresses: a dict in which each
\* of ip, subnet, gateway may be missing (read as ''), or None / {} (given FALSE)
NetConfigs ==
    [given : {TRUE}, ip : IpChoices \cup {<<>>}, subnet : Masks \cup {<<>>},
     gateway : IpChoices \cup {<<>>}]
    \cup [given : {FALSE}, ip : {<<>>}, subnet : {<<>>}, gateway : {<<>>}]

GlobalBroadcast == <<"255", "255", "255", "255">>

\* ip_parts[0] + "." + ip_parts[1] + "." + ip_parts[2] + ".255"
subnet_broadcast(ip_parts) == <<ip_parts[1], ip_parts[2], ip_parts[3], "255">>

ListHas(list, x) == \E i \in 1..Len(list) : list[i] = x

\* WOLSender.get_broadcast_addresses, lines 177-206
get_broadcast_addresses(network_config) ==
    IF ~network_config.given THEN <<>>
    ELSE LET ip      == network_config.ip
             subnet  == network_config.subnet
             gateway == network_config.gateway
             first   == <<GlobalBroadcast>>
             second  == IF gateway # <<>> /\ Len(gateway) = 4
                        THEN Append(first, subnet_broadcast(gateway))
                        ELSE first
         IN  IF ip # <<>> /\ subnet = Mask24 /\ Len(ip) = 4
                /\ ~ListHas(second, subnet_broadcast(ip))
             THEN Append(second, subnet_broadcast(ip))
             ELSE second

\* the call returned None
ReturnedNone == [status |-> "null"]

\* the argument record of a query: the association status and the Connected
\* flag at the call, and whether the lower layer (ifconfig, config, status,
\* active, scan) reports an error during it
QueryArg(err) == [connected |-> hw, flag |-> is_connected, error |-> err]

QueryFrame ==
    /\ pc' = "query_done"
    /\ UNCHANGED <<caller, wifiVars, connVars, arResult, sincePoll, pollVars, wolVars, runVars>>
    /\ UNCHANGED <<packetVars, multiVars, shutdowns, first_iteration, checkResult, discVars>>

\* get_ip(), lines 99-101: no try around wlan.ifconfig()
ApiGetIp ==
    /\ pc = "api_idle"
    /\ \E err \in BOOLEAN :
          /\ fnIn' = [op |-> "get_ip", arg |-> QueryArg(err)]
          /\ IF ~hw THEN fnOut' = ReturnedNone
             ELSE IF err THEN fnOut' = Raised
             ELSE \E cfg \in IfConfigs : fnOut' = Returned(cfg.ip)
    /\ QueryFrame

\* get_network_info(), lines 105-114: no try around ifconfig() and config('essid')
ApiGetNetworkInfo ==
    /\ pc = "api_idle"
    /\ \E err \in BOOLEAN :
          /\ fnIn' = [op |-> "get_network_info", arg |-> QueryArg(err)]
          /\ IF ~hw THEN fnOut' = ReturnedNone
             ELSE IF err THEN fnOut' = Raised
             ELSE \E cfg \in IfConfigs :
                      fnOut' = Returned([given |-> TRUE, ip |-> cfg.ip, subnet |-> cfg.subnet,
                                         gateway |-> cfg.gateway])
    /\ QueryFrame

\* signal strengths wlan.status('rssi') reports
RssiVals == {-90, -40}

\* get_signal_strength(), lines 118-121: whatever status('rssi') gives, None when it raises
ApiGetSignalStrength ==
    /\ pc = "api_idle"
    /\ \E err \in BOOLEAN :
          /\ fnIn' = [op |-> "get_signal_strength", arg |-> QueryArg(err)]
          /\ IF err THEN fnOut' = ReturnedNone
             ELSE \E rssi \in RssiVals : fnOut' = Returned(rssi)
    /\ QueryFrame

\* scan_networks(), lines 125-141: the list wlan.scan() gives, [] when active() or scan() raises
ApiScanNetworks ==
    /\ pc = "api_idle"
    /\ \E err \in BOOLEAN :
          /\ fnIn' = [op |-> "scan_networks", arg |-> QueryArg(err)]
          /\ IF err THEN fnOut' = Returned(<<>>)
             ELSE \E nets \in {<<>>, <<"ap1">>, <<"ap1", "ap2">>} : fnOut' = Returned(nets)
    /\ QueryFrame

\* get_broadcast_addresses(network_config) called on its own
ApiGetBroadcastAddresses ==
    /\ pc = "api_idle"
    /\ \E cfg \in NetConfigs :
          /\ fnIn' = [op |-> "get_broadcast_addresses", arg |-> cfg]
          /\ fnOut' = Returned(get_broadcast_addresses(cfg))
    /\ QueryFrame

\* the caller has looked at what the query returned
ApiQueryDone ==
    /\ pc = "query_done"
    /\ pc' = "api_idle"
    /\ fnIn' = NoCall
    /\ fnOut' = NoReturn
    /\ UNCHANGED <<caller, wifiVars, connVars, arResult, sincePoll, pollVars, wolVars, runVars>>
    /\ UNCHANGED <<packetVars, multiVars, shutdowns, first_iteration, checkResult, discVars>>

NextNet ==
    \/ LinkUp \/ LinkDown \/ ApiCheckConnection \/ ApiCheckReturn
    \/ ApiGetIp \/ ApiGetNetworkInfo \/ ApiGetSignalStrength \/ ApiScanNetworks
    \/ ApiGetBroadcastAddresses \/ ApiQueryDone

NetSpec == InitApi /\ [][NextNet]_vars

(* ============================ properties ============================= *)

ConnectPcs == {"conn_entry", "conn_loop", "conn_wait", "conn_check", "conn_ret"}

DispatchPcs == {"wol_build", "wol_socket", "wol_send", "wol_close"}

\* positions of the Running state: the while loop, its handler, and all it calls
InLoop == InTryBody \/ pc \in {"loop_head", "loop_except"}

\* positions after the while loop / after run()
AfterLoopPcs == {"run_finally", "run_ret", "main_done"}

\* C1: in every poll cycle send_wol_packet is called exactly once, with the
\* instruction's target_mac, when the poll returned an instruction with a
\* non-empty target_mac, and not at all when it returned nothing, an error or an
\* empty target_mac; the dispatch calls of a run never outnumber the polls that
\* returned an instruction.
C1_DispatchOncePerInstruction ==
    /\ dispatchCount <= instrCount
    /\ instrCount <= pollCount
    /\ cycleDispatch <= 1
    /\ cycleDispatch = 1 => (pollKind = "instr" /\ message # <<>> /\ dispatchMac = message)
    /\ pc \in DispatchPcs => cycleDispatch = 1
    /\ pc \in {"loop_assign", "loop_sleep"} =>
          (cycleDispatch = 1 <=> (pollKind = "instr" /\ message # <<>>))

\* the second poll of a run returns no instruction after the first one was dispatched
C1_Witness ==
    /\ pc = "loop_assign"
    /\ pollCount = 2 /\ instrCount = 1 /\ dispatchCount = 1
    /\ pollKind = "empty" /\ cycleDispatch = 0

\* C2: a poll request (and any dispatch) only happens in an iteration whose
\* auto_reconnect() returned true; when it returned false or raised, the iteration
\* issues no poll and no dispatch.
C2_PollOnlyWhenConnected ==
    /\ pc \in {"poll_request", "process"} \cup DispatchPcs => arResult = "true"
    /\ pollKind \in {"error", "empty", "instr"} => arResult = "true"
    /\ cycleDispatch > 0 => arResult = "true"
    /\ arResult \in {"false", "raised"} =>
          (pollKind \in {"none", "skipped"} /\ cycleDispatch = 0 /\ message = <<>>)
    /\ (pc \in {"loop_assign", "loop_sleep"} /\ arResult \in {"false", "raised"}) => pollKind = "skipped"

\* an iteration after a first poll whose reconnect exhausted its attempts
C2_Witness ==
    /\ pc = "loop_assign"
    /\ arResult = "false" /\ pollKind = "skipped"
    /\ pollCount = 1

\* C3: a failed bootstrap connect() is followed by machine.reset(): main() never
\* ends after a bootstrap connect failure (a reset would have rebooted the device).
C3_BootFailureResets == initResult = "connect_failed" => pc # "main_done"

\* C4: when the bootstrap connect() fails the startup is aborted: no registration,
\* no poll and no dispatch in that run, and the loop is never entered.
C4_BootFailureAborts ==
    initResult \in {"connect_failed", "error"} =>
        /\ pc \in AfterLoopPcs
        /\ regCount = 0 /\ pollCount = 0 /\ dispatchCount = 0
        /\ arResult = "none"

\* run() has returned after all bootstrap attempts failed
C4_Witness == initResult = "connect_failed" /\ pc = "main_done" /\ ~is_connected

\* C5: an error that escapes the per-iteration handling triggers the restart
\* path: main() never ends after such an error (a reset would have rebooted).
C5_EscapedErrorResets == loopExit = "escaped" => pc # "main_done"

\* the loop is left only by a stop signal or by an exception raised outside the
\* per-iteration try (in the handler itself)
C6_LoopLeftOnlyByStop ==
    (pc \in AfterLoopPcs /\ initResult = "ok") => loopExit \in {"stop", "escaped", "interrupt"}

\* a step taken inside the loop with no stop signal stays inside the loop; an
\* exception of the try body goes to the handler, whose cooldown leads back to
\* the loop test with is_running still set
C6_StepStaysInLoop ==
    /\ (InLoop /\ loopExit' = "none") => InLoop'
    /\ (pc = "loop_except" /\ pc' # pc /\ loopExit' = "none") => (pc' = "loop_head" /\ is_running')

C7_RegisterInv ==
    /\ regCount <= 1
    /\ InLoop => regCount = 1
    /\ pollCount > 0 => regCount = 1
    /\ regCount = 1 => regResult \in {"ok", "failed"}

\* registration happens only in initialize_system, before any poll, and whatever
\* its outcome the next position is the loop test
C7_RegisterStep ==
    /\ regCount' = regCount + 1 => (pc = "init_register" /\ pollCount = 0)
    /\ (pc = "init_register" /\ pc' # pc /\ initResult' # "interrupt") =>
          (regCount' = 1 /\ pc' = "loop_head" /\ is_running')

\* C7: after a successful bootstrap connect() register_device is called once per
\* run, before the first poll; the agent enters Running whether it succeeds or
\* fails; it is never called again during Running, a reconnect included.
C7_RegisterOnce == [][C7_RegisterStep]_vars /\ []C7_RegisterInv

\* Running after a failed registration, reconnecting after a first poll
C7_Witness ==
    /\ pc = "conn_ret" /\ caller = "poll" /\ connResult = "true"
    /\ regResult = "failed" /\ regCount = 1 /\ pollCount = 1

\* the bookkeeping of connect()'s retry loop
C8_ConnectInv ==
    /\ connReqs <= WIFI_RETRY_COUNT
    /\ retry_count <= WIFI_RETRY_COUNT
    /\ pc = "conn_loop" => (connReqs = retry_count /\ backoffs = Min(retry_count, WIFI_RETRY_COUNT - 1))
    /\ pc \in {"conn_wait", "conn_check"} => (connReqs = retry_count + 1 /\ backoffs = retry_count)
    /\ (pc = "conn_ret" /\ connResult = "false") =>
          /\ retry_count = WIFI_RETRY_COUNT
          /\ connReqs = WIFI_RETRY_COUNT
          /\ backoffs = WIFI_RETRY_COUNT - 1
          /\ ~is_connected
          /\ ~connObserved
    /\ (pc = "conn_ret" /\ connResult = "true" /\ activated) => (connObserved /\ is_connected)

\* the check after the wait returns true at once when it sees the association;
\* false is returned only by the loop test, with every attempt used
C8_ConnectStep ==
    /\ (pc = "conn_check" /\ hw /\ pc' \in ConnectPcs /\ pc' # pc) =>
          (pc' = "conn_ret" /\ connResult' = "true" /\ is_connected')
    /\ (pc # "conn_ret" /\ pc' = "conn_ret" /\ connResult' = "false") =>
          (pc = "conn_loop" /\ retry_count = WIFI_RETRY_COUNT)

\* C8: a connect() that starts with the flag clear and the radio not associated
\* issues at most WIFI_RETRY_COUNT connect requests, returns true as soon as the
\* check of an attempt sees the association, returns false only after
\* WIFI_RETRY_COUNT failed attempts, takes the backoff between attempts but not
\* after the last, and leaves the flag clear when it returns false.
C8_ConnectBounded == [][C8_ConnectStep]_vars /\ []C8_ConnectInv

\* a reconnect from the poll loop has used up every attempt
C8_Witness ==
    /\ pc = "conn_ret" /\ caller = "poll" /\ connResult = "false"
    /\ connReqs = WIFI_RETRY_COUNT

\* the two shortcuts, as steps of the thread
C9_ShortcutStep ==
    /\ (pc = "ar_check" /\ is_connected /\ hw /\ pc' # pc) =>
          /\ pc' = "ar_ret" /\ arResult' = "true"
          /\ UNCHANGED <<is_connected, hw, connVars>>
    /\ (pc = "conn_entry" /\ is_connected /\ pc' # pc) =>
          /\ pc' = "conn_ret" /\ connResult' = "true"
          /\ ~activated' /\ connReqs' = 0
          /\ UNCHANGED <<is_connected, hw>>

\* C9: with the flag set and the radio associated auto_reconnect() returns true
\* without calling connect() and changes nothing; connect() called with the flag
\* set returns true without touching the interface.
C9_ConnectedIsNoOp == [][C9_ShortcutStep]_vars

\* connect() has returned through the shortcut (here with the link already lost)
C9_Witness ==
    /\ pc = "conn_ret" /\ caller = "api_connect"
    /\ connResult = "true" /\ ~activated /\ connReqs = 0
    /\ is_connected /\ ~hw

\* C10: every socket a send_wol_packet call opens is closed exactly once before
\* the call returns, on every exit path; at most one socket is open at any time.
C10_SocketReleased ==
    /\ sockOpen \in {0, 1}
    /\ sockOpens <= 1
    /\ sockOpen = sockOpens - sockCloses
    /\ sockOpen = 1 => pc \in {"wol_send", "wol_close"}
    /\ pc \notin DispatchPcs => (sockOpen = 0 /\ sockCloses = sockOpens)
    /\ wolResult = "true" => sockOpens = 1

\* a dispatch with a valid MAC whose send failed has returned, the socket closed
C10_Witness ==
    /\ pc = "loop_assign"
    /\ create_magic_packet(dispatchMac) # NoneVal
    /\ wolResult = "false" /\ sockOpens = 1 /\ sockCloses = 1 /\ sockOpen = 0

\* positions of send_wol_packet at which a socket exists or is being opened
SocketPcs == {"wol_socket", "wol_send", "wol_close"}

\* the current send_wol_packet call is past create_magic_packet
PastBuild ==
    \/ pc \in SocketPcs
    \/ pc = "multi_ret"
    \/ pc = "wol_done" /\ caller = "wol_api"

\* the current send_wol_packet call has returned
SendReturned == pc = "multi_ret" \/ (pc = "wol_done" /\ caller = "wol_api")

IsHexDigit(c) ==
    c \in {"0", "1", "2", "3", "4", "5", "6", "7", "8", "9",
           "a", "b", "c", "d", "e", "f", "A", "B", "C", "D", "E", "F"}

\* the string, its separators taken out, is exactly 12 hexadecimal digits
ReducesTo12Hex(t) ==
    LET digits == SelectSeq(t, NotSeparator)
    IN  Len(digits) = 12 /\ \A i \in 1..Len(digits) : IsHexDigit(digits[i])

\* C11: for a mac_address that does not reduce to exactly 12 hexadecimal digits
\* no packet is built, send_wol_packet never reaches the socket, and it returns
\* False having opened no socket and sent no datagram
C11_InvalidMacNoNetwork ==
    ~ReducesTo12Hex(dispatchMac) =>
        /\ pc \notin SocketPcs
        /\ magic_packet = NoneVal
        /\ sockOpens = 0 /\ sockOpen = 0 /\ sentCount = 0
        /\ SendReturned => wolResult = "false"

\* send_wol_packet has returned on a 13-digit string
C11_Witness ==
    /\ pc = "wol_done" /\ caller = "wol_api" /\ wolResult = "false"
    /\ Len(SelectSeq(dispatchMac, NotSeparator)) = 13
    /\ sockOpens = 0 /\ sentCount = 0

\* C12: for an address of 6 bytes written as 12 hex digits in any letter case,
\* with ':' or '-' between the bytes or with no separator, the packet built is
\* 102 bytes long: 6 bytes 0xFF and then the 6 address bytes 16 times; every
\* other way of writing the same address gives the same packet
C12_MagicPacketShape ==
    (PastBuild /\ macBytes # <<>>) =>
        /\ Len(magic_packet) = 102
        /\ \A i \in 1..6 : magic_packet[i] = 255
        /\ \A k \in 0..15 : \A j \in 1..6 : magic_packet[6 + 6 * k + j] = macBytes[j]
        /\ \A sep \in Separators : \A style \in Styles :
              create_magic_packet(FormatMac(macBytes, sep, style)) = magic_packet

\* send_wol_packet has returned on a lower-case, dash-separated address
C12_Witness ==
    /\ pc = "wol_done" /\ caller = "wol_api"
    /\ macBytes = <<26, 144, 171, 171, 144, 26>>
    /\ dispatchMac = <<"1", "a", "-", "9", "0", "-", "a", "b", "-", "a", "b", "-", "9", "0", "-", "1", "a">>
    /\ Len(magic_packet) = 102

MultiPcs == {"multi_loop", "multi_ret"}

\* a send_multiple_wol call has returned
MultiReturned == pc = "wol_done" /\ caller = "multi"

\* C13: when send_multiple_wol(mac, attempts = n, delay) returns it has made
\* exactly n send_wol_packet calls and n - 1 delays (none for n = 0), whatever
\* the attempts returned, and its result is true exactly when at least one call
\* returned True; with the default n = 3 and every call succeeding: true, 3 calls
\* and 2 delays
C13_RepeatedDispatch ==
    /\ MultiReturned =>
          /\ multiCalls = attempts
          /\ multiDelays = (IF attempts = 0 THEN 0 ELSE attempts - 1)
          /\ multiResult = (IF okCalls > 0 THEN "true" ELSE "false")
    /\ (MultiReturned /\ attempts = DEFAULT_ATTEMPTS /\ okCalls = attempts) =>
          multiResult = "true" /\ multiCalls = 3 /\ multiDelays = 2
    /\ (caller = "multi" /\ pc \in MultiPcs \cup DispatchPcs) =>
          /\ multiCalls <= attempts
          /\ multiDelays <= multiCalls /\ multiCalls <= multiDelays + 1

\* three attempts, the first of which succeeded and the last of which failed
C13_Witness ==
    /\ MultiReturned
    /\ attempts = 3 /\ multiCalls = 3 /\ multiDelays = 2
    /\ okCalls = 2 /\ wolResult = "false" /\ multiResult = "true"

\* a poll_for_messages call is over
PollCalled == pc = "fn_done" /\ fnIn.op = "poll_for_messages"

\* the body is a JSON object
IsObject(resp) == ~resp.exc /\ resp.status = 200 /\ resp.json /\ resp.isdict

\* `messages` is missing or a list of objects, `total` is missing or an integer
WellTyped(resp) ==
    /\ resp.msgs_kind \in {"list", "absent"}
    /\ resp.total_kind \in {"int", "absent"}
    /\ \A i \in 1..Len(resp.messages) : resp.messages[i].is_obj

\* C14: for a 200 response whose body is a JSON object (with well-typed fields)
\* the poll returns the instruction made of the first element of `messages`, a
\* missing id, target_mac or created_at read as the empty string, exactly when
\* total > 0 and `messages` is non-empty, and (None, None) otherwise, whatever
\* follows the first element; a 200 body that is no JSON object gives the
\* "Invalid response format" error
C14_PollParsing ==
    PollCalled =>
        LET resp == fnIn.arg
        IN  /\ (IsObject(resp) /\ WellTyped(resp)) =>
                  /\ fnOut.status = "returned"
                  /\ fnOut.value.error = ""
                  /\ fnOut.value.has_message = (resp.total > 0 /\ Len(resp.messages) > 0)
                  /\ fnOut.value.has_message =>
                        LET m == resp.messages[1]
                        IN  /\ fnOut.value.id = (IF m.has_id THEN m.id ELSE "")
                            /\ fnOut.value.target_mac = (IF m.has_mac THEN m.target_mac ELSE <<>>)
                            /\ fnOut.value.created_at = (IF m.has_created THEN m.created_at ELSE "")
            /\ (~resp.exc /\ resp.status = 200 /\ ~IsObject(resp)) =>
                  /\ fnOut.status = "returned"
                  /\ ~fnOut.value.has_message
                  /\ fnOut.value.error = "Invalid response format"

\* two messages queued, the first without an id and with another target_mac
\* than the second: the instruction is the first
C14_Witness ==
    /\ PollCalled
    /\ IsObject(fnIn.arg) /\ WellTyped(fnIn.arg)
    /\ fnIn.arg.total = 1 /\ Len(fnIn.arg.messages) = 2
    /\ ~fnIn.arg.messages[1].has_id
    /\ fnIn.arg.messages[1].target_mac = MacColon
    /\ fnIn.arg.messages[2].target_mac = MacDashLower
    /\ fnOut.value.has_message /\ fnOut.value.id = "" /\ fnOut.value.target_mac = MacColon

\* `messages` or `total` of the object has the wrong type
IllTyped(resp) == resp.msgs_kind = "unsized" \/ resp.total_kind = "bad"

\* C18: poll_for_messages never raises and returns a message without an error,
\* nothing without an error, or nothing with an error, never a message with an
\* error; a transport exception gives the "Request error" error, a non-200
\* status the "HTTP" error with its status code, a 200 body that is no JSON the
\* "Invalid response format" error, and a JSON object with an ill-typed
\* `messages` or `total` gives an error
C18_PollOutcomeOrError ==
    PollCalled =>
        LET resp == fnIn.arg
        IN  /\ fnOut.status = "returned"
            /\ ~(fnOut.value.has_message /\ fnOut.value.error # "")
            /\ resp.exc => (fnOut.value.error = "Request error" /\ ~fnOut.value.has_message)
            /\ (~resp.exc /\ resp.status # 200) =>
                  /\ fnOut.value.error = "HTTP"
                  /\ fnOut.value.status = resp.status
                  /\ ~fnOut.value.has_message
            /\ (~resp.exc /\ resp.status = 200 /\ ~resp.json) =>
                  fnOut.value.error = "Invalid response format"
            /\ (IsObject(resp) /\ IllTyped(resp)) => fnOut.value.error # ""

\* a get_broadcast_addresses call on a snapshot is over
BroadcastCalled == pc = "query_done" /\ fnIn.op = "get_broadcast_addresses" /\ fnIn.arg.given

\* the addresses the snapshot calls for, in the order they are met
BroadcastCandidates(cfg) ==
    <<GlobalBroadcast>>
    \o (IF cfg.gateway # <<>> THEN <<subnet_broadcast(cfg.gateway)>> ELSE <<>>)
    \o (IF cfg.ip # <<>> /\ cfg.subnet = Mask24 THEN <<subnet_broadcast(cfg.ip)>> ELSE <<>>)

\* C16: for every snapshot the list returned starts with 255.255.255.255, holds
\* no address twice, and is the candidates (global broadcast, the gateway's
\* x.y.z.255 if there is a gateway, the ip's x.y.z.255 if the mask is
\* 255.255.255.0) in first-seen order
C16_BroadcastList ==
    BroadcastCalled =>
        LET out  == fnOut.value
            cand == BroadcastCandidates(fnIn.arg)
        IN  /\ Len(out) >= 1 /\ out[1] = GlobalBroadcast
            /\ \A i \in 1..Len(out) : \A j \in 1..Len(out) : out[i] = out[j] => i = j
            /\ \A i \in 1..Len(cand) : ListHas(out, cand[i])
            /\ \A i \in 1..Len(out) : ListHas(cand, out[i])
            /\ \A i \in 1..Len(out) : \A j \in 1..Len(out) :
                  i < j => \E a \in 1..Len(cand) : \E b \in 1..Len(cand) :
                              a < b /\ cand[a] = out[i] /\ cand[b] = out[j]

QueryOps == {"get_ip", "get_network_info", "get_signal_strength", "scan_networks"}

QueryCalled == pc = "query_done" /\ fnIn.op \in QueryOps

\* C17: get_ip, get_network_info, get_signal_strength and scan_networks never
\* raise; they return None (scan_networks: the empty list) when the lower layer
\* reports an error, get_ip and get_network_info also when the interface is not
\* connected; the Connected flag is what it was at the call
C17_QueriesNeverRaise ==
    QueryCalled =>
        /\ fnOut.status # "raised"
        /\ is_connected = fnIn.arg.flag
        /\ (fnIn.op \in {"get_ip", "get_network_info"} /\ ~fnIn.arg.connected) =>
              fnOut.status = "null"
        /\ (fnIn.arg.error /\ fnIn.op # "scan_networks") => fnOut.status = "null"
        /\ (fnIn.arg.error /\ fnIn.op = "scan_networks") =>
              (fnOut.status = "returned" /\ fnOut.value = <<>>)

\* run() is over only after shutdown() has run, and shutdown() called disconnect()
C15_ShutdownInv ==
    /\ pc \in {"run_ret", "main_done"} => (shutdowns = 1 /\ discResult # "none")
    /\ loopExit = "stop" => (pc \in AfterLoopPcs /\ ~is_running)

\* from the stop signal on there is no poll, no dispatch and no datagram
C15_StopStep ==
    loopExit' = "stop" =>
        /\ pollCount' = pollCount
        /\ dispatchCount' = dispatchCount
        /\ sentCount' = sentCount
        /\ sockOpens' = sockOpens

CheckStep == (pc = "api_idle" /\ pc' = "check_ret") \/ (pc = "ar_check" /\ pc' # pc)

\* what check_connection() and auto_reconnect() have handed back agrees with the flag
C19_ReturnInv ==
    /\ (pc = "check_ret" /\ checkResult # "raised") => is_connected = (checkResult = "true")
    /\ (pc = "ar_ret" /\ arResult # "raised") =>
          (arResult \in {"true", "false"} /\ is_connected = (arResult = "true"))

\* the check returns the association status it sampled and leaves the flag equal to it
C19_CheckStep ==
    /\ CheckStep =>
          /\ is_connected' = hw
          /\ checkResult' \in {check_connection_result(hw), "raised"}
          /\ (hw = is_connected) => (is_connected' = is_connected /\ checkResult' # "raised")
    /\ (~is_connected /\ is_connected') => hw

\* C19: check_connection() returns the association status it sampled and on
\* return the Connected flag equals it; the flag becomes true only in a step
\* that saw the radio associated; what auto_reconnect() returns equals the
\* flag on return
C19_CheckConnection == [][C19_CheckStep]_vars /\ []C19_ReturnInv

\* check_connection() has just found a link the flag did not know about
C19_Witness == pc = "check_ret" /\ checkResult = "true" /\ is_connected /\ hw /\ backoffs = 0 /\ connReqs = 0

\* C20: after disconnect() has returned or failed the Connected flag is false,
\* and a hardware disconnect was issued only when the radio was associated
C20_DisconnectClears == pc = "disc_ret" => ~is_connected

\* positions inside a connect() call that has not returned yet
InConnect == {"conn_entry", "conn_loop", "conn_wait", "conn_check"}

\* a step of the program's single thread, as opposed to a change of the radio link
ThreadStep == pc' # pc \/ hw' = hw

\* the steps one attempt can take: the loop test and request, the turns of the
\* wait, the check
AttemptLen == WIFI_CONNECT_TIMEOUT + CONNECT_POLL_SLEEP + 3

\* how far a connect() call is from returning: attempts left, then steps left
\* in the attempt
ConnectRank ==
    CASE pc = "conn_entry" -> (WIFI_RETRY_COUNT + 2) * AttemptLen
      [] pc = "conn_loop"  -> (WIFI_RETRY_COUNT - retry_count) * AttemptLen + AttemptLen - 1
      [] pc = "conn_wait"  -> (WIFI_RETRY_COUNT - retry_count) * AttemptLen + AttemptLen - 2 - waited
      [] pc = "conn_check" -> (WIFI_RETRY_COUNT - retry_count) * AttemptLen
      [] OTHER -> 0

\* the statements of one loop iteration in program order, counted from its end
IterStage ==
    CASE pc = "loop_time"    -> 14
      [] pc = "ar_check"     -> 13
      [] pc \in InConnect    -> 12
      [] pc = "conn_ret"     -> 11
      [] pc = "ar_ret"       -> 10
      [] pc = "poll_request" -> 9
      [] pc = "process"      -> 8
      [] pc = "wol_build"    -> 7
      [] pc = "wol_socket"   -> 6
      [] pc = "wol_send"     -> 5
      [] pc = "wol_close"    -> 4
      [] pc = "loop_assign"  -> 3
      [] pc = "loop_sleep"   -> 2
      [] pc = "loop_except"  -> 1
      [] OTHER -> 0

\* how far a loop iteration is from its end
IterRank == IterStage * ((WIFI_RETRY_COUNT + 2) * AttemptLen + 1) + ConnectRank

\* the statement the thread is at can be executed without anything failing
CanProceed ==
    ENABLED (\/ ConnectEntry \/ ConnectLoop \/ ConnectWait \/ ConnectCheck
             \/ LoopTime \/ AutoReconnect \/ AutoReconnectReturn \/ PollServerBranch
             \/ PollRequest \/ ProcessWolMessage \/ WolBuild \/ WolSocket \/ WolSend
             \/ WolClose \/ LoopAssign \/ LoopSleep \/ Cooldown \/ InitAfterConnect)

\* the wait of one attempt never outlasts the per-attempt timeout by more than
\* one sleep, no more than WIFI_RETRY_COUNT attempts are made, and the thread
\* is never stuck inside connect() or inside an iteration (but for the bound
\* MaxPolls of this model)
C21_WaitInv ==
    /\ waited <= WIFI_CONNECT_TIMEOUT + CONNECT_POLL_SLEEP
    /\ retry_count <= WIFI_RETRY_COUNT
    /\ connReqs <= WIFI_RETRY_COUNT
    /\ pc \in {"conn_wait", "conn_check"} => retry_count < WIFI_RETRY_COUNT
    /\ ConnectRank >= 0
    /\ pc \in InConnect \cup {"conn_ret"} => CanProceed
    /\ (InTryBody \/ pc = "loop_except") =>
          (CanProceed \/ (pc = "loop_time" /\ pollCount = MaxPolls))

\* the wait ends once the timeout has elapsed; every failed attempt, one that
\* raises included, adds one to the retry counter; every step of the thread
\* inside connect() brings its return nearer, and every step inside an
\* iteration brings the end of the iteration nearer
C21_AttemptStep ==
    /\ (pc = "conn_wait" /\ waited > WIFI_CONNECT_TIMEOUT /\ ThreadStep) => pc' # "conn_wait"
    /\ (pc = "conn_wait" /\ pc' = "conn_wait" /\ ThreadStep) => waited' = waited + CONNECT_POLL_SLEEP
    /\ (pc = "conn_check" /\ pc' = "conn_loop") => retry_count' = retry_count + 1
    /\ (pc = "conn_loop" /\ pc' = "conn_loop" /\ ThreadStep) =>
          (connReqs' = connReqs + 1 /\ retry_count' = retry_count + 1)
    /\ (pc \in InConnect /\ ThreadStep) => ConnectRank' < ConnectRank
    /\ ((InTryBody \/ pc = "loop_except") /\ ThreadStep) => IterRank' < IterRank

\* C21: every attempt's wait ends once the per-attempt timeout has elapsed, the
\* retry counter grows with every failed attempt (one that raises included),
\* connect() returns after at most WIFI_RETRY_COUNT attempts whatever the link
\* does, and so every iteration of the Running loop comes to its end: the
\* thread can always take a step, and each step lowers a natural number
C21_ConnectTerminates == [][C21_AttemptStep]_vars /\ []C21_WaitInv

\* a reconnect of the poll loop whose last attempt has timed out with the link down
C21_Witness ==
    /\ pc = "conn_wait" /\ caller = "poll" /\ ~hw
    /\ retry_count = WIFI_RETRY_COUNT - 1 /\ waited = WIFI_CONNECT_TIMEOUT + CONNECT_POLL_SLEEP

\* run() line 136: the step in which poll_server() is called
PollServerCalled == pc # "ar_check" /\ pc' = "ar_check" /\ caller' = "poll"

\* the interval test of an iteration has been decided one way or the other
IntervalDecided == pc = "loop_time" /\ pc' \in {"ar_check", "loop_sleep"}

\* one iteration at a time, at most one poll_server call in it, and a call only
\* when POLL_INTERVAL seconds have passed since the previous call started; once
\* they have passed (the previous poll may have taken them all) the next
\* iteration polls
C22_SpacingStep ==
    /\ (pc # "loop_head" /\ pc' = "loop_head") => pc \in {"init_register", "loop_sleep", "loop_except"}
    /\ (pc # "loop_time" /\ pc' = "loop_time") => pc = "loop_head"
    /\ PollServerCalled => (pc = "loop_time" /\ sincePoll >= POLL_INTERVAL /\ sincePoll' = 0)
    /\ (InLoop /\ sincePoll' < sincePoll) => PollServerCalled
    /\ (IntervalDecided /\ sincePoll >= POLL_INTERVAL) => PollServerCalled
    /\ (IntervalDecided /\ sincePoll < POLL_INTERVAL) => ~PollServerCalled

\* the first iteration of the loop calls poll_server
C22_FirstPollStep == (IntervalDecided /\ first_iteration) => PollServerCalled

\* C22: the first loop iteration polls immediately, an iteration makes at most
\* one poll_server call, iterations do not overlap, and two consecutive
\* poll_server calls start at least POLL_INTERVAL seconds apart, a poll that
\* took longer being followed by the next after the loop's one-second sleep
C22_PollCadence == [][C22_SpacingStep /\ C22_FirstPollStep]_vars

\* no KeyboardInterrupt has ended the loop
NoStopSignal == loopExit \notin {"stop", "interrupt"}

\* auto_reconnect() has failed in an iteration of the Running loop
SteadyFailure == pc = "ar_ret" /\ caller = "poll" /\ arResult \in {"false", "raised"}

\* a failed auto_reconnect() costs the poll of this iteration and nothing else;
\* every due iteration calls auto_reconnect(), which samples the link again and
\* enters connect() when it is found down
C23_SkipStep ==
    /\ (SteadyFailure /\ ThreadStep /\ loopExit' # "stop") =>
          /\ pc' = "loop_assign" /\ pollKind' = "skipped"
          /\ pollCount' = pollCount /\ is_running' /\ loopExit' = loopExit
    /\ (IntervalDecided /\ sincePoll >= POLL_INTERVAL) => PollServerCalled
    /\ (pc = "ar_check" /\ caller = "poll" /\ pc' \notin {"ar_check", "run_finally"}) =>
          /\ is_connected' = hw
          /\ ~hw => pc' = "conn_entry"

\* without a stop signal the agent, once Running, stays Running
C23_StaysRunning == (initResult = "ok" /\ NoStopSignal) => InLoop

\* C23: a connect failure in steady state only skips the current poll and the
\* next due iteration calls auto_reconnect() again; so, with no stop signal,
\* when the link eventually becomes and stays associated the Connected flag
\* becomes true and poll requests are issued again and again
C23_ReconnectResumes ==
    /\ [][C23_SkipStep]_vars
    /\ []C23_StaysRunning
    /\ ([]NoStopSignal /\ <>[]hw /\ <>SteadyFailure) =>
          ([]<>is_connected /\ []<>(pc = "poll_request"))

====
